---------------------------- MODULE Spec2Model ----------------------------
(* Verification model of the pixelversum procedural sprite pipeline:       *)
(* the per-pixel terrain compositors, the frame/pixel render loops, the    *)
(* black-hole renderers, and the runtime sprite-sheet frame tables.        *)
(*                                                                         *)
(* Noise values are fixed-point integers in thousandths (0.5 = 500).       *)
(* Crater depths are in millionths.  Noise3D itself is not evaluated: the  *)
(* values it returns are drawn from small sets that cover each branch of   *)
(* the compositors.                                                        *)
EXTENDS Integers, Sequences, FiniteSets, TLC

VARIABLES compose, render, hole, runs, sheet, batch, manifest, perm, effects

vars == <<compose, render, hole, runs, sheet, batch, manifest, perm, effects>>

---------------------------------------------------------------------------
(* Arithmetic helpers *)

Min2(a, b) == IF a < b THEN a ELSE b

Max2(a, b) == IF a > b THEN a ELSE b

Max3(a, b, c) == Max2(a, Max2(b, c))

Abs(a) == IF a < 0 THEN 0 - a ELSE a

\* Math.floor(n / d) for integers n and d > 0
FloorDiv(n, d) == n \div d

\* JavaScript's n % d on integers: the result takes the sign of the dividend
JsRem(n, d) == IF n >= 0 THEN n % d ELSE 0 - ((0 - n) % d)

Idle == [pc |-> "idle"]

---------------------------------------------------------------------------
(* Moon compositor: generateUltraDetailedMoon, per-pixel colour choice *)

MoonTypeNames == <<"rocky_gray", "rocky_tan", "rocky_brown", "icy", "volcanic">>

ColorsLen == 5

CraterColorsLen == 3

MariaColorsLen == 3

LavaColorsLen == 3

RimColorsLen == 2

MountainColorsLen == 3

HasLavaColors(moonType) == moonType = "volcanic"

\* Math.pow(x, 2) of a value in thousandths, result in millionths
Sq(x) == x * x

hasLargeCrater(s) == s.largeCraters < -500

\* Math.pow((-0.5 - largeCraters) * 2.5, 2)
largeCraterDepth(s) ==
    IF hasLargeCrater(s) THEN Sq((-500 - s.largeCraters) * 5) \div 4 ELSE 0

hasMediumCrater(s) == s.mediumCraters < -580

\* Math.pow((-0.58 - mediumCraters) * 2.4, 2)
mediumCraterDepth(s) ==
    IF hasMediumCrater(s) THEN Sq((-580 - s.mediumCraters) * 12) \div 25 ELSE 0

hasSmallCrater(s) == s.smallCraters < -620

\* Math.pow((-0.62 - smallCraters) * 2.2, 1.8), tabulated at the sampled
\* arguments (IEEE value rounded down to millionths)
Pow18(smallCraters) ==
    CASE smallCraters = -1000 -> 724388
      [] smallCraters = -900  -> 418066
      [] smallCraters = -800  -> 188734
      [] smallCraters = -700  -> 43845

smallCraterDepth(s) == IF hasSmallCrater(s) THEN Pow18(s.smallCraters) ELSE 0

isMaria(s) == s.maria < -300

isMountain(s) == s.mountains > 700

isRille(s) == Abs(s.rilles) < 80

hasRays(s) == largeCraterDepth(s) > 300000 /\ s.rays > 500

hasLava(s) == s.moonType = "volcanic" /\ s.volcanoNoise > 680

totalCraterDepth(s) ==
    Max3(largeCraterDepth(s), mediumCraterDepth(s), smallCraterDepth(s))

\* Math.floor(Math.random() * len), Math.random() in thousandths of [0, 1)
RandomPick(random, len) == FloorDiv(random * len, 1000)

\* A palette lookup: which list, its length, and the index used
Lookup(cls, list, len, idx, random) ==
    [cls |-> cls, list |-> list, len |-> len, idx |-> idx, random |-> random]

\* The colour chain with the maria test moved ahead of the crater tests
MoonTerrainMariaFirst(s) ==
    IF hasLava(s) /\ HasLavaColors(s.moonType)
    THEN Lookup("lava", "lavaColors", LavaColorsLen,
                RandomPick(s.random, LavaColorsLen), TRUE)
    ELSE IF hasRays(s)
    THEN Lookup("ray", "colors", ColorsLen, 0, FALSE)
    ELSE IF isMaria(s) /\ ~isMountain(s)
    THEN Lookup("maria", "mariaColors", MariaColorsLen,
                RandomPick(s.random, MariaColorsLen), TRUE)
    ELSE IF totalCraterDepth(s) > 400000
    THEN Lookup("crater", "craterColors", CraterColorsLen,
                Min2(FloorDiv(totalCraterDepth(s) * (CraterColorsLen - 1), 1000000),
                     CraterColorsLen - 1), FALSE)
    ELSE IF totalCraterDepth(s) > 150000 /\ totalCraterDepth(s) < 350000
    THEN Lookup("rim", "colors", RimColorsLen,
                RandomPick(s.random, RimColorsLen), TRUE)
    ELSE IF isRille(s)
    THEN Lookup("rille", "craterColors", CraterColorsLen,
                RandomPick(s.random, CraterColorsLen), TRUE)
    ELSE IF isMountain(s)
    THEN Lookup("mountain", "colors", MountainColorsLen,
                FloorDiv((s.mountains - 700) * (MountainColorsLen - 1), 300), FALSE)
    ELSE Lookup("base", "colors", ColorsLen,
                Min2(FloorDiv((s.baseTexture + 1000) * (ColorsLen - 1), 2000),
                     ColorsLen - 1), FALSE)

\* The if / else-if chain that determines terrainColor
MoonTerrain(s) ==
    IF hasLava(s) /\ HasLavaColors(s.moonType)
    THEN Lookup("lava", "lavaColors", LavaColorsLen,
                RandomPick(s.random, LavaColorsLen), TRUE)
    ELSE IF hasRays(s)
    THEN Lookup("ray", "colors", ColorsLen, 0, FALSE)
    ELSE IF totalCraterDepth(s) > 400000
    THEN Lookup("crater", "craterColors", CraterColorsLen,
                Min2(FloorDiv(totalCraterDepth(s) * (CraterColorsLen - 1), 1000000),
                     CraterColorsLen - 1), FALSE)
    ELSE IF totalCraterDepth(s) > 150000 /\ totalCraterDepth(s) < 350000
    THEN Lookup("rim", "colors", RimColorsLen,
                RandomPick(s.random, RimColorsLen), TRUE)
    ELSE IF isMaria(s) /\ ~isMountain(s)
    THEN Lookup("maria", "mariaColors", MariaColorsLen,
                RandomPick(s.random, MariaColorsLen), TRUE)
    ELSE IF isRille(s)
    THEN Lookup("rille", "craterColors", CraterColorsLen,
                RandomPick(s.random, CraterColorsLen), TRUE)
    ELSE IF isMountain(s)
    THEN Lookup("mountain", "colors", MountainColorsLen,
                FloorDiv((s.mountains - 700) * (MountainColorsLen - 1), 300), FALSE)
    ELSE Lookup("base", "colors", ColorsLen,
                Min2(FloorDiv((s.baseTexture + 1000) * (ColorsLen - 1), 2000),
                     ColorsLen - 1), FALSE)

\* Noise3D / Math.random values sampled for one moon pixel
MoonSamples ==
    [body : {"moon"},
     moonType : {MoonTypeNames[i] : i \in 1..Len(MoonTypeNames)},
     baseTexture : {-1000, 0, 1000},
     largeCraters : {0, -520, -700, -740, -760, -1000},
     mediumCraters : {0, -1000},
     smallCraters : {0, -800},
     maria : {0, -400},
     mountains : {500, 800, 1300},
     rilles : {0, 500},
     rays : {0, 600},
     volcanoNoise : {0, 700},
     random : {0, 500, 999}]

---------------------------------------------------------------------------
(* Gas giant compositor: generateUltraDetailedGasGiant, per-pixel colour *)

GasGiantTypes ==
    <<"jovian_tan", "jovian_orange", "ice_giant_blue", "ice_giant_teal",
      "hot_jupiter", "storm_giant", "purple_giant", "green_giant", "ringed_giant">>

\* every list of every GAS_GIANT_PALETTES entry has three colours
BandColorsLen == 3

hasStorm(s) == s.stormNoise > 550

\* Math.pow((stormNoise - 0.55) / 0.45, 2), in millionths
stormIntensity(s) ==
    IF hasStorm(s) THEN (Sq(s.stormNoise - 550) * 400) \div 81 ELSE 0

hasSmallStorm(s) == s.smallStorms > 650

hasLightning(s) == s.lightningNoise > 780

\* latitudeBands + jetStreams * 0.3 + turbulence * 0.15, in 1/100000
bandValue(s) == s.latitudeBands * 100 + s.jetStreams * 30 + s.turbulence * 15

\* The atmosphere chain with the great-spot test ahead of the polar test
GasGiantStormFirst(s) ==
    IF hasLightning(s)
    THEN Lookup("lightning", "literal", 1, 0, FALSE)
    ELSE IF stormIntensity(s) > 300000
    THEN Lookup("storm", "storms", BandColorsLen,
                Min2(FloorDiv(stormIntensity(s) * (BandColorsLen - 1), 1000000),
                     BandColorsLen - 1), FALSE)
    ELSE IF s.isPolar
    THEN Lookup("polar", "poles", BandColorsLen,
                Min2(Max2(FloorDiv(s.polarPattern * (BandColorsLen - 1) + 500, 1000), 0),
                     BandColorsLen - 1), FALSE)
    ELSE IF hasSmallStorm(s)
    THEN Lookup("smallStorm", "storms", BandColorsLen,
                RandomPick(s.random, BandColorsLen), TRUE)
    ELSE IF bandValue(s) > 55000
    THEN Lookup("lightBand", "lightBands", BandColorsLen,
                Min2(FloorDiv((bandValue(s) - 55000) * (BandColorsLen - 1), 45000),
                     BandColorsLen - 1), FALSE)
    ELSE Lookup("darkBand", "darkBands", BandColorsLen,
                Min2(FloorDiv(bandValue(s) * (BandColorsLen - 1), 55000),
                     BandColorsLen - 1), FALSE)

GasGiantAtmosphere(s) ==
    IF hasLightning(s)
    THEN Lookup("lightning", "literal", 1, 0, FALSE)
    ELSE IF s.isPolar
    THEN Lookup("polar", "poles", BandColorsLen,
                Min2(Max2(FloorDiv(s.polarPattern * (BandColorsLen - 1) + 500, 1000), 0),
                     BandColorsLen - 1), FALSE)
    ELSE IF stormIntensity(s) > 300000
    THEN Lookup("storm", "storms", BandColorsLen,
                Min2(FloorDiv(stormIntensity(s) * (BandColorsLen - 1), 1000000),
                     BandColorsLen - 1), FALSE)
    ELSE IF hasSmallStorm(s)
    THEN Lookup("smallStorm", "storms", BandColorsLen,
                RandomPick(s.random, BandColorsLen), TRUE)
    ELSE IF bandValue(s) > 55000
    THEN Lookup("lightBand", "lightBands", BandColorsLen,
                Min2(FloorDiv((bandValue(s) - 55000) * (BandColorsLen - 1), 45000),
                     BandColorsLen - 1), FALSE)
    ELSE Lookup("darkBand", "darkBands", BandColorsLen,
                Min2(FloorDiv(bandValue(s) * (BandColorsLen - 1), 55000),
                     BandColorsLen - 1), FALSE)

GasGiantSamples ==
    [body : {"gasGiant"},
     latitudeBands : {0, 500, 1000},
     jetStreams : {-1000, 0, 1000},
     turbulence : {0, 500, 1500},
     stormNoise : {0, 700, 800, 1000},
     smallStorms : {0, 700},
     isPolar : BOOLEAN,
     polarPattern : {-1000, 0, 1000},
     lightningNoise : {0, 800},
     random : {0, 500, 999}]

---------------------------------------------------------------------------
(* Planet compositor: generateEnhancedPlanet, per-pixel colour *)

\* Lengths of the lists of a PLANET_PALETTES entry, 0 where the entry has
\* no such list; unknown planet types fall back to the rocky palette
PlanetPalette(planetType) ==
    LET none == [ocean |-> 0, deep |-> 0, crater |-> 0, mountain |-> 0,
                 rock |-> 0, land |-> 0, sand |-> 0, surface |-> 0]
        rocky == [none EXCEPT !.rock = 3, !.crater = 3]
    IN CASE planetType = "terran" -> [none EXCEPT !.ocean = 3, !.land = 3, !.mountain = 3]
         [] planetType = "desert" -> [none EXCEPT !.sand = 3, !.rock = 3, !.crater = 3]
         [] planetType = "ice"    -> [none EXCEPT !.deep = 3]
         [] planetType = "lava"   -> none
         [] planetType = "ocean"  -> [none EXCEPT !.deep = 3]
         [] planetType = "toxic"  -> [none EXCEPT !.surface = 3]
         [] OTHER -> rocky

\* a || b || ... || [literal]: the first list present, else a one-colour list
FirstList(palette, names) ==
    LET present == {i \in 1..Len(names) : palette[names[i]] > 0}
    IN IF present = {} THEN [list |-> "literal", len |-> 1]
       ELSE LET i == CHOOSE k \in present : \A j \in present : k <= j
            IN [list |-> names[i], len |-> palette[names[i]]]

hasCrater(s) == s.craterNoise < -500

\* Math.pow((-0.5 - craterNoise) * 2, 2), in millionths
craterDepth(s) == IF hasCrater(s) THEN Sq((-500 - s.craterNoise) * 2) ELSE 0

hasWater(s) == s.planetType = "terran" \/ s.planetType = "ocean"

EnhancedPlanetColor(s) ==
    LET palette == PlanetPalette(s.planetType) IN
    IF hasWater(s) /\ s.waterNoise < -100
    THEN LET c == FirstList(palette, <<"ocean", "deep">>)
         IN Lookup("water", c.list, c.len,
                   Min2(FloorDiv((-100 - s.waterNoise) * (c.len - 1), 900), c.len - 1), FALSE)
    ELSE IF hasCrater(s)
    THEN LET c == FirstList(palette, <<"crater">>)
         IN Lookup("crater", c.list, c.len,
                   JsRem(FloorDiv(craterDepth(s) * c.len, 1000000), c.len), FALSE)
    ELSE IF s.mountains > 600
    THEN LET c == FirstList(palette, <<"mountain", "rock">>)
         IN Lookup("mountain", c.list, c.len,
                   Min2(FloorDiv((s.mountains - 600) * c.len, 400), c.len - 1), FALSE)
    ELSE LET c == FirstList(palette, <<"land", "rock", "sand", "surface">>)
         IN Lookup("base", c.list, c.len,
                   Min2(FloorDiv((s.continents + 1000) * (c.len - 1), 2000), c.len - 1), FALSE)

PlanetSamples ==
    [body : {"planet"},
     planetType : {"terran", "rocky", "desert", "ice", "lava", "ocean", "toxic", "frozen"},
     continents : {-1000, 0, 1000},
     mountains : {0, 700, 1900},
     craterNoise : {0, -700, -1000},
     waterNoise : {0, -500, -1000},
     random : {0}]

---------------------------------------------------------------------------
(* Compositor specification: one sampled pixel, one colour decision *)

InitCompose ==
    /\ compose \in [pc : {"sampled"},
                     in : MoonSamples \cup GasGiantSamples \cup PlanetSamples,
                     out : {Idle}]
    /\ render = Idle
    /\ hole = Idle
    /\ runs = Idle
    /\ sheet = Idle
    /\ batch = Idle
    /\ manifest = Idle
    /\ perm = Idle
    /\ effects = Idle

ComposeMoon ==
    /\ compose.pc = "sampled"
    /\ compose.in.body = "moon"
    /\ compose' = [compose EXCEPT !.pc = "coloured", !.out = MoonTerrain(compose.in)]
    /\ UNCHANGED <<render, hole, runs, sheet, batch, manifest, perm, effects>>

ComposeGasGiant ==
    /\ compose.pc = "sampled"
    /\ compose.in.body = "gasGiant"
    /\ compose' = [compose EXCEPT !.pc = "coloured",
                                  !.out = GasGiantAtmosphere(compose.in)]
    /\ UNCHANGED <<render, hole, runs, sheet, batch, manifest, perm, effects>>

ComposePlanet ==
    /\ compose.pc = "sampled"
    /\ compose.in.body = "planet"
    /\ compose' = [compose EXCEPT !.pc = "coloured",
                                  !.out = EnhancedPlanetColor(compose.in)]
    /\ UNCHANGED <<render, hole, runs, sheet, batch, manifest, perm, effects>>

NextCompose == ComposeMoon \/ ComposeGasGiant \/ ComposePlanet

SpecCompose == InitCompose /\ [][NextCompose]_vars

MoonColoured == compose.pc = "coloured" /\ compose.in.body = "moon"

\* Position of a class in an ordered list of classes (0 when absent)
PositionIn(order, cls) ==
    IF \E i \in 1..Len(order) : order[i] = cls
    THEN CHOOSE i \in 1..Len(order) : order[i] = cls
    ELSE 0

\* Terrain classes of the moon in the order the colour chain tests them
MoonOrder == <<"lava", "ray", "crater", "rim", "maria", "rille", "mountain", "base">>

MoonMatches(cls, s) ==
    CASE cls = "lava"     -> hasLava(s)
      [] cls = "ray"      -> hasRays(s)
      [] cls = "crater"   -> totalCraterDepth(s) > 400000
      [] cls = "rim"      -> totalCraterDepth(s) > 150000 /\ totalCraterDepth(s) < 350000
      [] cls = "maria"    -> isMaria(s) /\ ~isMountain(s)
      [] cls = "rille"    -> isRille(s)
      [] cls = "mountain" -> isMountain(s)
      [] cls = "base"     -> TRUE

StatedMoonOrder == <<"ray", "crater", "maria", "rille", "mountain", "base">>

StatedMoonMatches(cls, s) ==
    CASE cls = "ray"      -> hasRays(s)
      [] cls = "crater"   -> hasLargeCrater(s) \/ hasMediumCrater(s) \/ hasSmallCrater(s)
      [] cls = "maria"    -> isMaria(s)
      [] cls = "rille"    -> isRille(s)
      [] cls = "mountain" -> isMountain(s)
      [] cls = "base"     -> TRUE

StatedMoonClass(cls) == IF cls = "rim" THEN "crater" ELSE cls

C3_IndexInRange ==
    compose.pc = "coloured" =>
        compose.out.idx \in 0..(compose.out.len - 1)

PlanetColoured == compose.pc = "coloured" /\ compose.in.body = "planet"

\* Planet classes in the order the specification gives them, as far as
\* generateEnhancedPlanet has them
StatedPlanetOrder == <<"crater", "water", "mountain", "base">>

StatedPlanetMatches(cls, s) ==
    CASE cls = "crater"   -> hasCrater(s)
      [] cls = "water"    -> hasWater(s) /\ s.waterNoise < -100
      [] cls = "mountain" -> s.mountains > 600
      [] cls = "base"     -> TRUE

\* C17: a rocky/terran planet pixel takes the first class, in the order
\* clouds, ice caps, city lights, volcano, impact crater, water, mountain,
\* base, whose predicate matches; an impact crater is chosen over water
\* when both match.
C17_PlanetPriority ==
    PlanetColoured =>
        LET i == PositionIn(StatedPlanetOrder, compose.out.cls)
        IN /\ i > 0
           /\ StatedPlanetMatches(StatedPlanetOrder[i], compose.in)
           /\ \A j \in 1..(i - 1) : ~StatedPlanetMatches(StatedPlanetOrder[j], compose.in)

GasGiantColoured == compose.pc = "coloured" /\ compose.in.body = "gasGiant"

\* Atmosphere classes of the gas giant in the stated order
GasGiantOrder == <<"lightning", "polar", "storm", "smallStorm", "band">>

GasGiantMatches(cls, s) ==
    CASE cls = "lightning"  -> s.lightningNoise > 780
      [] cls = "polar"      -> s.isPolar
      [] cls = "storm"      -> s.stormNoise > 550
                               /\ Sq(s.stormNoise - 550) * 400 > 300000 * 81
      [] cls = "smallStorm" -> s.smallStorms > 650
      [] cls = "band"       -> TRUE

GasGiantClass(cls) == IF cls \in {"lightBand", "darkBand"} THEN "band" ELSE cls

\* C18: an on-disc gas-giant pixel takes the first class, in the order
\* lightning flash, polar storm, great-spot storm (intensity above 0.3),
\* small embedded storm, latitude band, whose predicate matches.
C18_GasGiantPriority ==
    GasGiantColoured =>
        LET i == PositionIn(GasGiantOrder, GasGiantClass(compose.out.cls))
        IN /\ i > 0
           /\ GasGiantMatches(GasGiantOrder[i], compose.in)
           /\ \A j \in 1..(i - 1) : ~GasGiantMatches(GasGiantOrder[j], compose.in)

\* a polar pixel inside a great-spot storm and a small storm, painted as
\* polar storm
C18_Witness ==
    /\ GasGiantColoured
    /\ compose.in.isPolar
    /\ GasGiantMatches("storm", compose.in)
    /\ GasGiantMatches("smallStorm", compose.in)
    /\ compose.out.cls = "polar"

---------------------------------------------------------------------------
(* Reproducibility: two runs of a generator on the same job *)

\* Math.random() results, in thousandths of [0, 1)
RandomDraws == {0, 999}

\* pixels rendered per run
DetPixels == 2

moonSizeMin == 250

moonSizeMax == 400

gasGiantSizes == <<1200, 1400, 1600, 1800>>

DetJobs ==
    {[body |-> "moon", index |-> 0], [body |-> "moon", index |-> 4],
     [body |-> "gasGiant", index |-> 0]}

\* MOON_TYPES[index % MOON_TYPES.length]
MoonTypeOf(index) == MoonTypeNames[(index % Len(MoonTypeNames)) + 1]

\* CONFIG.moonSize.min + Math.floor(Math.random() * (max - min)) for a moon,
\* CONFIG.gasGiantSizes[index % length] for a gas giant
SizeOf(job, random) ==
    IF job.body = "moon"
    THEN moonSizeMin + FloorDiv(random * (moonSizeMax - moonSizeMin), 1000)
    ELSE gasGiantSizes[(job.index % Len(gasGiantSizes)) + 1]

\* Math.floor(Math.random() * 1000000) + index * k, k = 3000 (moon), 7000 (gas giant)
NoiseSeedOf(job, random) ==
    random * 1000 + job.index * (IF job.body = "moon" THEN 3000 ELSE 7000)

NoiseSeeds(job) == {NoiseSeedOf(job, r) : r \in RandomDraws}

\* What Noise3D can return at one pixel
DetMoonNoise ==
    [body : {"moon"}, moonType : {"rocky_gray"}, baseTexture : {0},
     largeCraters : {0}, mediumCraters : {0}, smallCraters : {0},
     maria : {0, -400}, mountains : {500}, rilles : {500}, rays : {0},
     volcanoNoise : {0}, random : {0}]

DetGasNoise ==
    [body : {"gasGiant"}, latitudeBands : {500}, jetStreams : {0},
     turbulence : {500}, stormNoise : {0}, smallStorms : {0, 700},
     isPolar : {FALSE}, polarPattern : {0}, lightningNoise : {0}, random : {0}]

\* The colour one pixel receives, given the noise sampled there and the
\* Math.random() result the colour chain may consume
PixelColor(job, noise, random) ==
    IF job.body = "moon"
    THEN MoonTerrain([noise EXCEPT !.moonType = MoonTypeOf(job.index), !.random = random])
    ELSE GasGiantAtmosphere([noise EXCEPT !.random = random])

NewRun == [pc |-> "new", size |-> 0, seed |-> 0, buffer |-> <<>>]

\* Noise3D is a pure function of its seed: field[seed][pixel] is fixed
\* for the whole behaviour
InitDeterminism ==
    /\ \E job \in DetJobs :
       \E field \in [NoiseSeeds(job) ->
                       [1..DetPixels -> IF job.body = "moon" THEN DetMoonNoise
                                                              ELSE DetGasNoise]] :
          runs = [pc |-> "running", job |-> job, field |-> field,
                  a |-> NewRun, b |-> NewRun]
    /\ compose = Idle
    /\ render = Idle
    /\ hole = Idle
    /\ sheet = Idle
    /\ batch = Idle
    /\ manifest = Idle
    /\ perm = Idle
    /\ effects = Idle

\* size, canvas and `new Noise3D(Math.floor(Math.random() * 1000000) + ...)`
StartRun(r) ==
    /\ runs.pc = "running"
    /\ runs[r].pc = "new"
    /\ \E sizeDraw \in RandomDraws, seedDraw \in RandomDraws :
          runs' = [runs EXCEPT ![r] = [pc |-> "rendering",
                                       size |-> SizeOf(runs.job, sizeDraw),
                                       seed |-> NoiseSeedOf(runs.job, seedDraw),
                                       buffer |-> <<>>]]
    /\ UNCHANGED <<compose, render, hole, sheet, batch, manifest, perm, effects>>

\* one iteration of the pixel loop body
RenderPixel(r) ==
    /\ runs.pc = "running"
    /\ runs[r].pc = "rendering"
    /\ Len(runs[r].buffer) < DetPixels
    /\ \E random \in RandomDraws :
          LET p == Len(runs[r].buffer) + 1
              c == PixelColor(runs.job, runs.field[runs[r].seed][p], random)
          IN runs' = [runs EXCEPT ![r].buffer = Append(@, <<c.list, c.idx>>)]
    /\ UNCHANGED <<compose, render, hole, sheet, batch, manifest, perm, effects>>

\* return { canvas, size, frames }
FinishRun(r) ==
    /\ runs.pc = "running"
    /\ runs[r].pc = "rendering"
    /\ Len(runs[r].buffer) = DetPixels
    /\ runs' = [runs EXCEPT ![r].pc = "done"]
    /\ UNCHANGED <<compose, render, hole, sheet, batch, manifest, perm, effects>>

NextDeterminism ==
    \/ \E r \in {"a", "b"} : StartRun(r)
    \/ \E r \in {"a", "b"} : RenderPixel(r)
    \/ \E r \in {"a", "b"} : FinishRun(r)

SpecDeterminism == InitDeterminism /\ [][NextDeterminism]_vars

\* C1: two completed runs of the same generator on the same job that also
\* drew the same sprite size and the same noise seed hold identical buffers.
C1_SameJobSameBuffer ==
    (runs.pc = "running" /\ runs.a.pc = "done" /\ runs.b.pc = "done"
       /\ runs.a.seed = runs.b.seed /\ runs.a.size = runs.b.size)
    => runs.a.buffer = runs.b.buffer

---------------------------------------------------------------------------
(* Frame and pixel loops of the sphere-shaped bodies: moon, gas giant, star *)
(* Coordinates are doubled so that block centres and the frame centre are  *)
(* integers: dx2 = 2 * dx, d2 = 4 * dist^2.                                *)

\* CONFIG.frames / CONFIG.starFrames
moonFrames == 24

gasGiantFrames == 32

starFrames == 24

\* CONFIG.pixelSize / CONFIG.starPixelSize
moonPixelSize == 3

gasGiantPixelSize == 4

starPixelSize == 4

\* CONFIG.starSizes of the classes rendered here
starSizes == [NeutronStar |-> 350, Pulsar |-> 400]

FramesOf(job) ==
    CASE job.body = "moon" -> moonFrames
      [] job.body = "gasGiant" -> gasGiantFrames
      [] job.body = "star" -> starFrames

PixelSizeOf(job) ==
    CASE job.body = "moon" -> moonPixelSize
      [] job.body = "gasGiant" -> gasGiantPixelSize
      [] job.body = "star" -> starPixelSize

\* radius = size * 0.42 (moon, gas giant) or size * 0.4 (star), as the
\* fraction num/den of the doubled radius: 2 * radius = size * num / den
RadiusNum(job) == IF job.body = "star" THEN 4 ELSE 21

RadiusDen(job) == IF job.body = "star" THEN 5 ELSE 25

\* Math.ceil(size / pixelSize)
PixelCount(job) == (job.size + PixelSizeOf(job) - 1) \div PixelSizeOf(job)

\* 2 * (p * pixelSize + pixelSize / 2 - size / 2)
Dx2(job, p) == 2 * p * PixelSizeOf(job) + PixelSizeOf(job) - job.size

\* 4 * (dx * dx + dy * dy)
Dist2(job, px, py) == Dx2(job, px) * Dx2(job, px) + Dx2(job, py) * Dx2(job, py)

\* dist > size / 2: the frame half-width used in place of the radius
OutsideHalfFrame(d2, size, num, den) == d2 > size * size

\* dist > radius
OutsideRadius(d2, size, num, den) == d2 > (size * size * num * num) \div (den * den)

\* dist < radius * 3.5
InsideCorona(d2, size, num, den) == 4 * d2 * den * den < 49 * size * size * num * num

\* What the pixel loop body writes for block (px, py)
PixelLayer(job, px, py) ==
    LET d2 == Dist2(job, px, py)
        outside == OutsideRadius(d2, job.size, RadiusNum(job), RadiusDen(job))
    IN IF job.body = "star"
       THEN IF ~outside THEN "surface"
            ELSE IF InsideCorona(d2, job.size, RadiusNum(job), RadiusDen(job))
                 THEN "corona" ELSE "none"
       ELSE IF outside THEN "none" ELSE "terrain"

\* one pass of the inner `for px` loop
RowLayers(job, py) == [i \in 1..PixelCount(job) |-> PixelLayer(job, i - 1, py)]

\* The angle of the Y-axis rotation applied to the sphere sample at a
\* frame, in units of 1 / (2 * frames) of a turn:
\* rotationPhase (moon), time * 2 pi (star), rotationPhase * 2.5 (gas giant)
RotationAt(job, frame) == IF job.body = "gasGiant" THEN 5 * frame ELSE 2 * frame

\* rotationPhase = (frame / frames) * Math.PI * 2, in the same units
RotationPhase(job, frame) == 2 * frame

FullTurn(job) == 2 * FramesOf(job)

\* ringInnerRadius + k * pixelSize * 2 < ringOuterRadius, with
\* ringOuterRadius - ringInnerRadius = radius * 0.7 = size * 0.294
RingRadiusInside(job, k) == k * 2 * PixelSizeOf(job) * 1000 < job.size * 294

HasRings(job) == job.body = "gasGiant" /\ job.type = "ringed_giant"

\* a ring that is never skipped
NoRingGap(ringStructure) == FALSE

\* if (ringStructure < -0.2) continue
RingGap(ringStructure) == ringStructure < -200

\* Math.floor(rx / pixelSize) of segment i = 0 (angle 0, on the frame's
\* centre row): rx = centerX + ringInnerRadius + k * pixelSize * 2, with
\* ringInnerRadius = size * 0.546
RingColumn(job, k) ==
    FloorDiv(job.size * 1046 + k * 2000 * PixelSizeOf(job), 1000 * PixelSizeOf(job))

RenderJobs ==
    {[body |-> "moon", type |-> MoonTypeOf(0), index |-> 0,
      size |-> SizeOf([body |-> "moon", index |-> 0], r)] : r \in RandomDraws}
    \cup {[body |-> "gasGiant", type |-> GasGiantTypes[i + 1], index |-> i,
           size |-> SizeOf([body |-> "gasGiant", index |-> i], 0)] : i \in {0, 8}}
    \cup {[body |-> "star", type |-> "NeutronStar", index |-> 0,
           size |-> starSizes.NeutronStar]}

InitRender ==
    /\ render \in [pc : {"frame"}, job : RenderJobs, frame : {0}, py : {0},
                   phase : {0}, rot : {0}, layers : {<<>>}, ring : {0},
                   ringDrawn : {FALSE}, ringNoise : {0}, ringCol : {-1}]
    /\ compose = Idle
    /\ hole = Idle
    /\ runs = Idle
    /\ sheet = Idle
    /\ batch = Idle
    /\ manifest = Idle
    /\ perm = Idle
    /\ effects = Idle

\* for (let frame = 0; frame < frames; frame++): loop test and frame setup
BeginFrame ==
    /\ render.pc = "frame"
    /\ IF render.frame < FramesOf(render.job)
       THEN render' = [render EXCEPT !.pc = "rows", !.py = 0, !.layers = <<>>,
                                     !.phase = RotationPhase(render.job, render.frame),
                                     !.rot = RotationAt(render.job, render.frame)]
       ELSE render' = [render EXCEPT !.pc = "done"]
    /\ UNCHANGED <<compose, hole, runs, sheet, batch, manifest, perm, effects>>

\* one iteration of `for (let py ...)`: the whole row of blocks
RenderRow ==
    /\ render.pc = "rows"
    /\ render.py < PixelCount(render.job)
    /\ render' = [render EXCEPT !.layers = RowLayers(render.job, render.py),
                                !.py = render.py + 1]
    /\ UNCHANGED <<compose, hole, runs, sheet, batch, manifest, perm, effects>>

\* the pixel loop is over: atmosphere glow for gas giants, else next frame
EndRows ==
    /\ render.pc = "rows"
    /\ render.py = PixelCount(render.job)
    /\ render' = IF render.job.body = "gasGiant"
                 THEN [render EXCEPT !.pc = "glow"]
                 ELSE [render EXCEPT !.pc = "frame", !.frame = render.frame + 1]
    /\ UNCHANGED <<compose, hole, runs, sheet, batch, manifest, perm, effects>>

\* the 72 glow squares at radius * 1.06, then the ring system if any
GlowPass ==
    /\ render.pc = "glow"
    /\ render' = IF HasRings(render.job)
                 THEN [render EXCEPT !.pc = "rings", !.ring = 0, !.ringDrawn = FALSE,
                                     !.ringNoise = 0, !.ringCol = -1]
                 ELSE [render EXCEPT !.pc = "frame", !.frame = render.frame + 1]
    /\ UNCHANGED <<compose, hole, runs, sheet, batch, manifest, perm, effects>>

\* one ring radius: skipped when ringStructure < -0.2, else its segments
\* are drawn; ringCol is the block segment 0 fills on the centre row
RingStep ==
    /\ render.pc = "rings"
    /\ RingRadiusInside(render.job, render.ring)
    /\ \E ringStructure \in {-500, 0} :
          render' = [render EXCEPT
                       !.ring = render.ring + 1,
                       !.ringNoise = ringStructure,
                       !.ringDrawn = ~RingGap(ringStructure),
                       !.ringCol = IF RingGap(ringStructure) THEN -1
                                   ELSE RingColumn(render.job, render.ring)]
    /\ UNCHANGED <<compose, hole, runs, sheet, batch, manifest, perm, effects>>

EndRings ==
    /\ render.pc = "rings"
    /\ ~RingRadiusInside(render.job, render.ring)
    /\ render' = [render EXCEPT !.pc = "frame", !.frame = render.frame + 1]
    /\ UNCHANGED <<compose, hole, runs, sheet, batch, manifest, perm, effects>>

NextRender ==
    \/ BeginFrame
    \/ RenderRow
    \/ EndRows
    \/ GlowPass
    \/ RingStep
    \/ EndRings

SpecRender == InitRender /\ [][NextRender]_vars

\* the row of blocks written by the last RenderRow step
RowWritten == render.pc = "rows" /\ render.py > 0

\* planar distance from the frame centre greater than the configured radius
BeyondRadius(job, px, py) ==
    Dist2(job, px, py) * RadiusDen(job) * RadiusDen(job)
        > job.size * job.size * RadiusNum(job) * RadiusNum(job)

\* C4: in every frame of every sphere-shaped body, a block whose centre is
\* farther from the frame centre than the radius gets no on-disc colour.
C4_DiscMask ==
    RowWritten =>
        \A i \in 1..Len(render.layers) :
            BeyondRadius(render.job, i - 1, render.py - 1)
                => render.layers[i] \notin {"terrain", "surface"}

\* a later frame's row that crosses the limb: on-disc blocks painted,
\* off-disc blocks of the same row left without terrain
C4_Witness ==
    /\ RowWritten
    /\ render.frame > 0
    /\ \E i \in 1..Len(render.layers) : render.layers[i] \in {"terrain", "surface"}
    /\ \E i \in 1..Len(render.layers) :
          /\ BeyondRadius(render.job, i - 1, render.py - 1)
          /\ render.layers[i] \in {"none", "corona"}

\* C7: frame f uses rotationPhase = f / frameCount of a turn, and the
\* rotation applied to the sphere sample at frame index frameCount equals,
\* modulo a full turn, the rotation applied at frame 0, for every body.
C7_RotationWraps ==
    /\ render.pc = "rows" =>
          render.phase * FramesOf(render.job) = render.frame * FullTurn(render.job)
    /\ render.pc = "done" =>
          RotationAt(render.job, render.frame) % FullTurn(render.job)
              = RotationAt(render.job, 0) % FullTurn(render.job)

\* the ring radius handled by the last RingStep
RingStepped == render.pc = "rings" /\ render.ring > 0

---------------------------------------------------------------------------
(* Black holes: generateUltraDetailedBlackHole and generateBlackHole.      *)
(* The canvas of the current frame is tracked on the bounding square of    *)
(* the event horizon; drawing outside that square leaves it unchanged.     *)
(* Each cell holds the name of the layer drawn there last.                 *)

\* frames rendered per sheet in this model
MaxHoleFrames == 2

\* CONFIG.frames, CONFIG.blackHoleFrames
holeFrames == 24

realisticHoleFrames == 16

\* CONFIG.pixelSize, CONFIG.blackHolePixelSize
holePixelSize == 4

blackHoleSizes == <<600, 800, 1000>>

\* CONFIG.blackHoleSize
realisticHoleSize == 800

blackHoleTypes == <<"stellar", "intermediate", "supermassive", "active_quasar", "dormant">>

\* the jobs of the two main() loops: type i with size blackHoleSizes[i % 3],
\* canvas of twice that size; and the single fixed-size realistic black hole
HoleJobs ==
    {[gen |-> "ultra", type |-> blackHoleTypes[i + 1], index |-> i,
      baseSize |-> blackHoleSizes[(i % Len(blackHoleSizes)) + 1],
      size |-> blackHoleSizes[(i % Len(blackHoleSizes)) + 1] * 2] : i \in 0..4}
    \cup {[gen |-> "realistic", type |-> "realistic", index |-> 0,
           baseSize |-> realisticHoleSize, size |-> realisticHoleSize]}

HoleFramesOf(job) == IF job.gen = "ultra" THEN holeFrames ELSE realisticHoleFrames

\* activityLevel, in tenths
activityLevel(job) ==
    CASE job.type = "active_quasar" -> 10
      [] job.type = "dormant" -> 2
      [] job.type = "supermassive" -> 8
      [] OTHER -> 6

\* palette.hasJets
hasJets(job) == job.gen = "ultra" /\ job.type # "dormant"

\* Math.ceil(size / pixelSize)
HolePixelCount(job) == (job.size + holePixelSize - 1) \div holePixelSize

\* 2 * (p * pixelSize + pixelSize / 2 - size / 2)
HoleDx2(job, p) == 2 * p * holePixelSize + holePixelSize - job.size

\* 4 * (dx * dx + dy * dy)
HoleDist2(job, px, py) ==
    HoleDx2(job, px) * HoleDx2(job, px) + HoleDx2(job, py) * HoleDx2(job, py)

\* Doubled radii; every product below is a whole number for the
\* configured sizes.
\* eventHorizonRadius = baseSize * 0.15 (ultra), size * 0.12 (realistic)
eventHorizonRadius2(job) ==
    IF job.gen = "ultra" THEN (job.baseSize * 3) \div 10 ELSE (job.size * 6) \div 25

\* eventHorizonRadius * 1.3 (ultra), accretionDiskOuter * 1.3 (realistic)
lensingRadius2(job) ==
    IF job.gen = "ultra" THEN (job.baseSize * 39) \div 100 ELSE (job.size * 117) \div 100

\* eventHorizonRadius * 1.5
diskInnerRadius2(job) ==
    IF job.gen = "ultra" THEN (job.baseSize * 9) \div 20 ELSE (job.size * 9) \div 25

\* baseSize * 0.8 (ultra), size * 0.45 (realistic)
diskOuterRadius2(job) ==
    IF job.gen = "ultra" THEN (job.baseSize * 8) \div 5 ELSE (job.size * 9) \div 10

\* diskOuterRadius * 1.5
glowRadius2(job) == (job.baseSize * 12) \div 5

\* dist > radius, on doubled values: the comparison turned around
BeyondDist(d2, r2) == d2 > r2 * r2

\* dist < radius, on doubled values
WithinDist(d2, r2) == d2 < r2 * r2

\* the layer the ultra-detailed pixel loop draws at block (px, py)
UltraPixel(job, px, py, diskNoise) ==
    LET d2 == HoleDist2(job, px, py) IN
    IF WithinDist(d2, eventHorizonRadius2(job)) THEN "horizon"
    ELSE IF ~WithinDist(d2, eventHorizonRadius2(job)) /\ WithinDist(d2, lensingRadius2(job))
    THEN "lensing"
    ELSE IF ~WithinDist(d2, diskInnerRadius2(job)) /\ WithinDist(d2, diskOuterRadius2(job))
    THEN IF diskNoise < -300 THEN "none" ELSE "disk"
    ELSE IF /\ ~WithinDist(d2, diskOuterRadius2(job))
            /\ WithinDist(d2, glowRadius2(job))
            /\ activityLevel(job) > 3
    THEN "glow"
    ELSE "none"

\* the layer generateBlackHole draws at block (px, py): a > 0 in each branch
RealisticPixel(job, px, py) ==
    LET d2 == HoleDist2(job, px, py) IN
    IF WithinDist(d2, eventHorizonRadius2(job)) THEN "horizon"
    ELSE IF ~WithinDist(d2, diskInnerRadius2(job)) /\ WithinDist(d2, diskOuterRadius2(job))
    THEN "disk"
    ELSE IF WithinDist(d2, lensingRadius2(job)) THEN "lensing"
    ELSE "none"

HolePixel(job, px, py, diskNoise) ==
    IF job.gen = "ultra" THEN UltraPixel(job, px, py, diskNoise)
    ELSE RealisticPixel(job, px, py)

\* ctx.fillRect over what the cell held; "none" is no call at all
Paint(old, layer) == IF layer = "none" THEN old ELSE layer

\* block rows / columns of the tracked square
ViewIndex(job) ==
    {p \in 0..(HolePixelCount(job) - 1) : Abs(HoleDx2(job, p)) <= eventHorizonRadius2(job)}

BlankCanvas(job) == [r \in ViewIndex(job) |-> [c \in ViewIndex(job) |-> "transparent"]]

\* jetWidthVariation = jetWidth * (1 + jetTurbulence * 0.5) with
\* jetWidth = eventHorizonRadius * 0.5, in units of 1/80000 px
jetWidthVariation(job, jetTurbulence) == 3 * job.baseSize * (2000 + jetTurbulence)

\* Math.floor(jx / pixelSize) for jx = centerX - jetWidthVariation,
\* stepping by pixelSize while jx <= centerX + jetWidthVariation
JetColumns(job, jetTurbulence) ==
    LET w == jetWidthVariation(job, jetTurbulence)
        centerX == (job.size \div 2) * 80000
        step == holePixelSize * 80000
    IN {FloorDiv(centerX - w + k * step, step) : k \in 0..((2 * w) \div step)}

\* Top jet: jy = centerY - jetLength + k * pixelSize, jetLength = baseSize * 2
TopJetY(job, k) == (job.size \div 2) - job.baseSize * 2 + k * holePixelSize

\* 2 * (centerY - eventHorizonRadius): the top jet stops short of it
TopJetEnd2(job) == job.size - eventHorizonRadius2(job)

\* 2 * centerY: a jet that is drawn from the frame centre outwards
JetFromCentre2(job) == job.size

\* 2 * (centerY + eventHorizonRadius): where the bottom jet starts
BottomJetStart2(job) == job.size + eventHorizonRadius2(job)

\* Bottom jet: 2 * jy for jy = centerY + eventHorizonRadius + k * pixelSize
BottomJetY2(job, k) == BottomJetStart2(job) + 2 * k * holePixelSize

\* 2 * (centerY + jetLength)
BottomJetEnd2(job) == job.size + 4 * job.baseSize

\* the fillRect calls of one jet row, seen on the tracked square
PaintJetRow(canvas, job, row, cols) ==
    IF row \in DOMAIN canvas
    THEN [canvas EXCEPT ![row] = [c \in DOMAIN canvas[row] |->
                                     IF c \in cols THEN "jet" ELSE canvas[row][c]]]
    ELSE canvas

\* one pass of the inner `for px` loop, seen on the tracked square
PaintRow(canvas, job, py, diskNoise) ==
    IF py \in DOMAIN canvas
    THEN [canvas EXCEPT ![py] = [c \in DOMAIN canvas[py] |->
                                    Paint(canvas[py][c], HolePixel(job, c, py, diskNoise))]]
    ELSE canvas

\* noise.fbm results used by the black-hole passes
HoleNoise == {-1000, 0, 1000}

InitHole ==
    /\ \E job \in HoleJobs :
          hole = [pc |-> "frame", job |-> job, frame |-> 0, py |-> 0, jet |-> 0,
                  row |-> 0, canvas |-> BlankCanvas(job)]
    /\ compose = Idle
    /\ render = Idle
    /\ runs = Idle
    /\ sheet = Idle
    /\ batch = Idle
    /\ manifest = Idle
    /\ perm = Idle
    /\ effects = Idle

\* loop test of `for (let frame ...)`; each frame has its own canvas region
HoleBeginFrame ==
    /\ hole.pc = "frame"
    /\ IF hole.frame < HoleFramesOf(hole.job) /\ hole.frame < MaxHoleFrames
       THEN hole' = [hole EXCEPT !.pc = "rows", !.py = 0,
                                 !.canvas = BlankCanvas(hole.job)]
       ELSE hole' = [hole EXCEPT !.pc = "done"]
    /\ UNCHANGED <<compose, render, runs, sheet, batch, manifest, perm, effects>>

\* one iteration of `for (let py ...)`; diskNoise is sampled once per row
HoleRow ==
    /\ hole.pc = "rows"
    /\ hole.py < HolePixelCount(hole.job)
    /\ \E diskNoise \in HoleNoise :
          hole' = [hole EXCEPT !.py = hole.py + 1, !.row = hole.py,
                               !.canvas = PaintRow(hole.canvas, hole.job, hole.py, diskNoise)]
    /\ UNCHANGED <<compose, render, runs, sheet, batch, manifest, perm, effects>>

\* if (palette.hasJets && activityLevel > 0.5)
HoleEndRows ==
    /\ hole.pc = "rows"
    /\ hole.py = HolePixelCount(hole.job)
    /\ hole' = IF hasJets(hole.job) /\ activityLevel(hole.job) > 5
               THEN [hole EXCEPT !.pc = "topJet", !.jet = 0]
               ELSE [hole EXCEPT !.pc = "frame", !.frame = hole.frame + 1]
    /\ UNCHANGED <<compose, render, runs, sheet, batch, manifest, perm, effects>>

\* one row of the top jet
TopJetRow ==
    /\ hole.pc = "topJet"
    /\ 2 * TopJetY(hole.job, hole.jet) < TopJetEnd2(hole.job)
    /\ \E jetTurbulence \in HoleNoise :
          hole' = [hole EXCEPT
                     !.jet = hole.jet + 1,
                     !.row = FloorDiv(TopJetY(hole.job, hole.jet), holePixelSize),
                     !.canvas = PaintJetRow(hole.canvas, hole.job,
                                            FloorDiv(TopJetY(hole.job, hole.jet), holePixelSize),
                                            JetColumns(hole.job, jetTurbulence))]
    /\ UNCHANGED <<compose, render, runs, sheet, batch, manifest, perm, effects>>

TopJetDone ==
    /\ hole.pc = "topJet"
    /\ ~(2 * TopJetY(hole.job, hole.jet) < TopJetEnd2(hole.job))
    /\ hole' = [hole EXCEPT !.pc = "bottomJet", !.jet = 0]
    /\ UNCHANGED <<compose, render, runs, sheet, batch, manifest, perm, effects>>

\* one row of the bottom jet
BottomJetRow ==
    /\ hole.pc = "bottomJet"
    /\ BottomJetY2(hole.job, hole.jet) < BottomJetEnd2(hole.job)
    /\ \E jetTurbulence \in HoleNoise :
          hole' = [hole EXCEPT
                     !.jet = hole.jet + 1,
                     !.row = FloorDiv(BottomJetY2(hole.job, hole.jet), 2 * holePixelSize),
                     !.canvas = PaintJetRow(hole.canvas, hole.job,
                                            FloorDiv(BottomJetY2(hole.job, hole.jet),
                                                     2 * holePixelSize),
                                            JetColumns(hole.job, jetTurbulence))]
    /\ UNCHANGED <<compose, render, runs, sheet, batch, manifest, perm, effects>>

BottomJetDone ==
    /\ hole.pc = "bottomJet"
    /\ ~(BottomJetY2(hole.job, hole.jet) < BottomJetEnd2(hole.job))
    /\ hole' = [hole EXCEPT !.pc = "frame", !.frame = hole.frame + 1]
    /\ UNCHANGED <<compose, render, runs, sheet, batch, manifest, perm, effects>>

NextHole ==
    \/ HoleBeginFrame
    \/ HoleRow
    \/ HoleEndRows
    \/ TopJetRow
    \/ TopJetDone
    \/ BottomJetRow
    \/ BottomJetDone

SpecHole == InitHole /\ [][NextHole]_vars

\* a frame has been drawn completely and its canvas is still in place
HoleFrameDrawn == (hole.pc = "frame" /\ hole.frame > 0) \/ hole.pc = "done"

\* the jet pass has just drawn a row that crosses the tracked square
JetRowDrawn ==
    hole.pc \in {"topJet", "bottomJet"} /\ hole.jet > 0 /\ hole.row \in DOMAIN hole.canvas

\* the block that holds the frame centre
CentreBlock(job) == (job.size \div 2) \div holePixelSize

\* C5: in every finished frame of every black hole the pixel at the frame
\* centre has exactly the opaque event-horizon colour.
C5_CentreIsHorizon ==
    HoleFrameDrawn =>
        hole.canvas[CentreBlock(hole.job)][CentreBlock(hole.job)] = "horizon"

\* the second frame of a black hole with jets is finished
C5_Witness ==
    /\ hole.pc = "frame" /\ hole.frame = 2
    /\ hasJets(hole.job)
    /\ hole.canvas[CentreBlock(hole.job)][CentreBlock(hole.job)] = "horizon"

\* block centre strictly inside the event-horizon radius
InsideHorizon(job, px, py) ==
    HoleDist2(job, px, py) < eventHorizonRadius2(job) * eventHorizonRadius2(job)

\* C6: at the end of every frame each block whose centre lies inside the
\* event-horizon radius holds the opaque event-horizon colour, and no row
\* drawn by the jet pass changes such a block.
C6_HorizonOpaque ==
    /\ HoleFrameDrawn =>
          \A r \in DOMAIN hole.canvas : \A c \in DOMAIN hole.canvas[r] :
              InsideHorizon(hole.job, c, r) => hole.canvas[r][c] = "horizon"
    /\ JetRowDrawn =>
          \A c \in DOMAIN hole.canvas[hole.row] :
              InsideHorizon(hole.job, c, hole.row) => hole.canvas[hole.row][c] = "horizon"

\* a finished frame in which a jet was drawn onto the tracked square, next
\* to event-horizon blocks
C6_Witness ==
    /\ HoleFrameDrawn
    /\ \E r \in DOMAIN hole.canvas : \E c \in DOMAIN hole.canvas[r] :
          hole.canvas[r][c] = "jet"
    /\ \E r \in DOMAIN hole.canvas : \E c \in DOMAIN hole.canvas[r] :
          InsideHorizon(hole.job, c, r) /\ hole.canvas[r][c] = "horizon"

---------------------------------------------------------------------------
(* Runtime sprite sheets: StructureSpriteGenerator.generateStationSprite,  *)
(* CelestialSpriteGenerator.generateStarSprite / getFrameByRotation /      *)
(* clearCache.  Angles are in units of 1 / AngleDen of a full turn.        *)

\* concurrent generateStarSprite calls awaiting the loader, per cache key
MaxPending == 1

\* rotation angles range over -MaxTurns .. MaxTurns full turns
MaxTurns == 1

AngleDen == 24

Rotations == (0 - MaxTurns * AngleDen)..(MaxTurns * AngleDen)

NoSheet == [frameCount |-> 0]

\* x of frame i read off the row number instead of the column number
FrameXByRow(i, cols, frameWidth) == (i \div cols) * frameWidth

\* col = i % cols; x = col * frameWidth
FrameX(i, cols, frameWidth) == (i % cols) * frameWidth

\* row = Math.floor(i / cols); y = row * frameHeight
FrameY(i, cols, frameHeight) == (i \div cols) * frameHeight

\* What SpriteFileLoader hands back for a sheet file: the generators pack
\* the frames of a sheet side by side in one row
LoaderSheets ==
    {[frameWidth |-> p[1], frameHeight |-> p[1], cols |-> p[2], rows |-> 1,
      frameCount |-> p[2]] : p \in {<<350, 24>>, <<800, 16>>, <<1200, 1>>}}

\* the result object generateStarSprite builds and caches
StarSheet(cacheKey, spriteData) ==
    [name |-> cacheKey,
     frameWidth |-> spriteData.frameWidth,
     frameHeight |-> spriteData.frameHeight,
     cols |-> spriteData.cols,
     rows |-> spriteData.rows,
     frameCount |-> spriteData.frameCount,
     frames |-> [i \in 0..(spriteData.frameCount - 1) |->
                   [index |-> i,
                    x |-> FrameX(i, spriteData.cols, spriteData.frameWidth),
                    y |-> FrameY(i, spriteData.cols, spriteData.frameHeight),
                    width |-> spriteData.frameWidth,
                    height |-> spriteData.frameHeight]]]

\* `star_${stellarClass}_${Math.floor(seed)}`, seed given in halves
CacheKey(stellarClass, seed2) == <<"star", stellarClass, seed2 \div 2>>

StarConfigs == [stellarClass : {"G", "M"}, seed2 : {0, 1}]

CacheKeys == {CacheKey(c.stellarClass, c.seed2) : c \in StarConfigs}

\* the rotation left as the first remainder gives it: -2 pi < r < 2 pi
TruncatedRotation(rotation) == JsRem(rotation, AngleDen)

\* ((rotation % (Math.PI * 2)) + Math.PI * 2) % (Math.PI * 2)
normalizedRotation(rotation) == JsRem(JsRem(rotation, AngleDen) + AngleDen, AngleDen)

\* what a caller holds instead of a frame: null, or undefined
NullFrame == [missing |-> "null"]

UndefinedFrame == [missing |-> "undefined"]

\* array read: undefined outside the array
ElementAt(frames, i) == IF i \in DOMAIN frames THEN frames[i] ELSE UndefinedFrame

\* getFrameByRotation(sheetName, rotation) on the cache
getFrameByRotation(cache, sheetName, rotation) ==
    IF sheetName \notin DOMAIN cache \/ cache[sheetName] = NoSheet
    THEN NullFrame
    ELSE LET frameCount == cache[sheetName].frameCount
             frameIndex == FloorDiv(normalizedRotation(rotation) * frameCount, AngleDen)
         IN ElementAt(cache[sheetName].frames, JsRem(frameIndex, frameCount))

\* generateStationSprite inputs: size, pixelSize (in halves), animationFrames
StationConfigs ==
    [type : {"trading"}, size : {-128, 0, 128}, pixelSize2 : {-2, 0, 1},
     animationFrames : {-1, 0, 1, 8}]

\* generateStationSprite for a trading station.  Nothing validates the
\* configuration; the only failures are those of the canvas API:
\* ctx.arc with a negative radius (IndexSizeError) when a frame is drawn,
\* createImageBitmap of a canvas without area (InvalidStateError).
generateStationSprite(config) ==
    LET frameSize == config.size * 3
        width == frameSize * config.animationFrames
    IN IF config.animationFrames > 0 /\ config.size < 0
       THEN [kind |-> "station", config |-> config, error |-> "IndexSizeError",
             sheet |-> NoSheet]
       ELSE IF width = 0 \/ frameSize = 0
       THEN [kind |-> "station", config |-> config, error |-> "InvalidStateError",
             sheet |-> NoSheet]
       ELSE [kind |-> "station", config |-> config, error |-> "none",
             sheet |-> [frameWidth |-> frameSize,
                        frameHeight |-> frameSize,
                        frameCount |-> config.animationFrames,
                        frames |-> [i \in 0..(config.animationFrames - 1) |->
                                      [index |-> i, x |-> i * frameSize, y |-> 0,
                                       width |-> frameSize, height |-> frameSize]]]]

InitSheet ==
    /\ sheet = [pc |-> "ready",
                cache |-> [k \in CacheKeys |-> NoSheet],
                pending |-> [k \in CacheKeys |-> 0],
                last |-> [kind |-> "none"]]
    /\ compose = Idle
    /\ render = Idle
    /\ hole = Idle
    /\ runs = Idle
    /\ batch = Idle
    /\ manifest = Idle
    /\ perm = Idle
    /\ effects = Idle

\* generateStarSprite up to its await: a cache hit returns the cached
\* sheet, a miss starts a load
StarSpriteCall ==
    /\ sheet.pc = "ready"
    /\ \E config \in StarConfigs :
          LET k == CacheKey(config.stellarClass, config.seed2) IN
          IF sheet.cache[k] # NoSheet
          THEN sheet' = [sheet EXCEPT !.last = [kind |-> "sheet", name |-> k,
                                                sheet |-> sheet.cache[k]]]
          ELSE /\ sheet.pending[k] < MaxPending
               /\ sheet' = [sheet EXCEPT !.pending[k] = @ + 1,
                                         !.last = [kind |-> "loading", name |-> k]]
    /\ UNCHANGED <<compose, render, hole, runs, batch, manifest, perm, effects>>

\* the loader resolves with sheet data: frame records are built, the
\* sheet is cached and returned
StarSpriteLoaded ==
    /\ sheet.pc = "ready"
    /\ \E k \in CacheKeys, spriteData \in LoaderSheets :
          /\ sheet.pending[k] > 0
          /\ sheet' = [sheet EXCEPT !.pending[k] = @ - 1,
                                    !.cache[k] = StarSheet(k, spriteData),
                                    !.last = [kind |-> "sheet", name |-> k,
                                              sheet |-> StarSheet(k, spriteData)]]
    /\ UNCHANGED <<compose, render, hole, runs, batch, manifest, perm, effects>>

\* the loader resolves with nothing or rejects: null is returned
StarSpriteFailed ==
    /\ sheet.pc = "ready"
    /\ \E k \in CacheKeys :
          /\ sheet.pending[k] > 0
          /\ sheet' = [sheet EXCEPT !.pending[k] = @ - 1,
                                    !.last = [kind |-> "null", name |-> k]]
    /\ UNCHANGED <<compose, render, hole, runs, batch, manifest, perm, effects>>

FrameByRotation ==
    /\ sheet.pc = "ready"
    /\ \E k \in CacheKeys, rotation \in Rotations :
          sheet' = [sheet EXCEPT !.last =
                       [kind |-> "frame", name |-> k, rotation |-> rotation,
                        frameCount |-> sheet.cache[k].frameCount,
                        frame |-> getFrameByRotation(sheet.cache, k, rotation)]]
    /\ UNCHANGED <<compose, render, hole, runs, batch, manifest, perm, effects>>

clearCache ==
    /\ sheet.pc = "ready"
    /\ sheet' = [sheet EXCEPT !.cache = [k \in CacheKeys |-> NoSheet],
                              !.last = [kind |-> "cleared"]]
    /\ UNCHANGED <<compose, render, hole, runs, batch, manifest, perm, effects>>

StationSprite ==
    /\ sheet.pc = "ready"
    /\ \E config \in StationConfigs :
          sheet' = [sheet EXCEPT !.last = generateStationSprite(config)]
    /\ UNCHANGED <<compose, render, hole, runs, batch, manifest, perm, effects>>

NextSheet ==
    \/ StarSpriteCall
    \/ StarSpriteLoaded
    \/ StarSpriteFailed
    \/ FrameByRotation
    \/ clearCache
    \/ StationSprite

SpecSheet == InitSheet /\ [][NextSheet]_vars

\* the frame records of a sheet lie side by side in one row
StripFrames(sh) ==
    /\ DOMAIN sh.frames = 0..(sh.frameCount - 1)
    /\ \A i \in DOMAIN sh.frames :
          /\ sh.frames[i].index = i
          /\ sh.frames[i].x = i * sh.frameWidth
          /\ sh.frames[i].y = 0
          /\ sh.frames[i].width = sh.frameWidth
          /\ sh.frames[i].height = sh.frameHeight

\* C8: every frame record of a sheet, cached or returned, has
\* x = index * frameWidth, y = 0, width = frameWidth, height = frameHeight.
C8_FrameRecords ==
    /\ \A k \in CacheKeys : sheet.cache[k] # NoSheet => StripFrames(sheet.cache[k])
    /\ (sheet.last.kind \in {"sheet", "station"} /\ sheet.last.sheet # NoSheet)
          => StripFrames(sheet.last.sheet)

\* a station sheet of several frames has just been returned while a star
\* sheet of several frames sits in the cache
C8_Witness ==
    /\ sheet.last.kind = "station" /\ sheet.last.sheet.frameCount > 1
    /\ \E k \in CacheKeys : sheet.cache[k].frameCount > 1

\* C9: for a cached sheet with frameCount >= 1 and any rotation, the frame
\* returned has index floor(normalizedAngle / 2 pi * frameCount) mod
\* frameCount, normalizedAngle being the angle reduced to [0, 2 pi); the
\* index is in range and a frame is returned.
C9_FrameByRotation ==
    (sheet.last.kind = "frame" /\ sheet.last.frameCount >= 1) =>
        /\ sheet.last.frame \notin {NullFrame, UndefinedFrame}
        /\ sheet.last.frame.index \in 0..(sheet.last.frameCount - 1)
        /\ sheet.last.frame.index =
              (((sheet.last.rotation % AngleDen) * sheet.last.frameCount) \div AngleDen)
                  % sheet.last.frameCount

\* a negative angle mapped to a frame other than 0
C9_Witness ==
    /\ sheet.last.kind = "frame"
    /\ sheet.last.rotation < 0
    /\ sheet.last.frame \notin {NullFrame, UndefinedFrame}
    /\ sheet.last.frame.index > 0

\* frame size, frame count or pixel size of a station request is not positive
NonPositiveDimension(config) ==
    config.size <= 0 \/ config.animationFrames <= 0 \/ config.pixelSize2 <= 0

\* C10: a request with a non-positive dimension fails with InvalidDimension
\* and no other request fails.
C10_InvalidDimension ==
    sheet.last.kind = "station" =>
        IF NonPositiveDimension(sheet.last.config)
        THEN sheet.last.error = "InvalidDimension"
        ELSE sheet.last.error = "none"

---------------------------------------------------------------------------
(* Batch runs: the main() loops of the generator scripts and direct calls  *)
(* of the generator functions.  A main() loop generates a sheet and writes *)
(* its file, sprite after sprite; main().catch(console.error) logs what    *)
(* the loop throws.                                                        *)

\* frames rendered per sheet in this model
MaxBatchFrames == 2

\* sprites requested per run in this model
MaxBatchSprites == 2

\* keys of PLANET_PALETTES, GAS_GIANT_PALETTES, BLACK_HOLE_PALETTES and
\* STAR_COLORS used here
PaletteKeys(cat) ==
    CASE cat = "planet" -> {"terran", "rocky"}
      [] cat = "gasGiant" -> {"jovian_tan", "ringed_giant"}
      [] cat = "blackHole" -> {"stellar", "intermediate", "dormant"}
      [] cat = "star" -> {"G", "M"}

\* the palette after `||`: PLANET_PALETTES.rocky, GAS_GIANT_PALETTES.jovian_tan,
\* BLACK_HOLE_PALETTES.stellar; STAR_COLORS[stellarClass] has no `||`
PaletteOf(cat, type) ==
    IF type \in PaletteKeys(cat) THEN type
    ELSE CASE cat = "planet" -> "rocky"
           [] cat = "gasGiant" -> "jovian_tan"
           [] cat = "blackHole" -> "stellar"
           [] cat = "star" -> "undefined"

\* the index argument main() passes for the i-th sprite of its loop
IndexArg(cat, i) == IF cat = "blackHole" THEN i - 1 ELSE 0

\* Math.floor(Math.random() * 1000000) + index * k, random in thousandths
NoiseSeedArg(cat, index, random) ==
    random * 1000 + index * (CASE cat = "planet" -> 5000
                               [] cat = "gasGiant" -> 7000
                               [] cat = "blackHole" -> 9000
                               [] cat = "star" -> 10000)

\* the comma-separated lists PLANET_TYPES can hold
EnvTypeLists ==
    UNION {[1..n -> {"terran", "xyz"}] : n \in 1..MaxBatchSprites}

\* what is asked of a run: a main() loop over a type list, or one call of a
\* generator function
BatchRequests ==
    {[mode |-> "main", cat |-> "planet", types |-> l] : l \in EnvTypeLists}
    \cup {[mode |-> "main", cat |-> "blackHole",
           types |-> SubSeq(blackHoleTypes, 1, MaxBatchSprites)]}
    \cup UNION {{[mode |-> "call", cat |-> c, types |-> <<t>>] :
                    t \in PaletteKeys(c) \cup {"xyz"}} :
                 c \in {"planet", "gasGiant", "blackHole", "star"}}

\* `${category}_${type}_000.png`
FileName(cat, type) == <<cat, type, "000">>

\* a sheet only reaches the frame loop's end
SheetBegun(frame) == frame >= 0

\* the frame loop has run to its end: the generator returns { canvas, ... }
SheetComputed(frame) == frame = MaxBatchFrames

InitBatch ==
    /\ \E req \in BatchRequests, stream \in [1..MaxBatchSprites -> RandomDraws] :
          batch = [pc |-> "loop", mode |-> req.mode, cat |-> req.cat,
                   types |-> req.types, stream |-> stream, calls |-> 0,
                   i |-> 1, frame |-> 0, palette |-> "none", seeds |-> <<>>,
                   files |-> {}, written |-> {}, failed |-> 0,
                   error |-> "none", log |-> {}]
    /\ compose = Idle
    /\ render = Idle
    /\ hole = Idle
    /\ runs = Idle
    /\ sheet = Idle
    /\ manifest = Idle
    /\ perm = Idle
    /\ effects = Idle

\* the loop head and the generator up to its frame loop: canvas, Noise3D
\* seeded from Math.random(), palette lookup
BatchGenerate ==
    /\ batch.pc = "loop"
    /\ batch.i <= Len(batch.types)
    /\ LET type == batch.types[batch.i]
           seed == NoiseSeedArg(batch.cat, IndexArg(batch.cat, batch.i),
                                batch.stream[batch.calls + 1])
       IN IF PaletteOf(batch.cat, type) = "undefined"
          THEN batch' = [batch EXCEPT !.pc = "thrown", !.calls = @ + 1,
                                      !.seeds = Append(@, seed),
                                      !.failed = batch.i, !.error = "TypeError"]
          ELSE batch' = [batch EXCEPT !.pc = "render", !.calls = @ + 1,
                                      !.seeds = Append(@, seed), !.frame = 0,
                                      !.palette = PaletteOf(batch.cat, type)]
    /\ UNCHANGED <<compose, render, hole, runs, sheet, manifest, perm, effects>>

\* one iteration of the generator's frame loop
BatchRenderFrame ==
    /\ batch.pc = "render"
    /\ ~SheetComputed(batch.frame)
    /\ batch' = [batch EXCEPT !.frame = @ + 1]
    /\ UNCHANGED <<compose, render, hole, runs, sheet, manifest, perm, effects>>

\* return { canvas, frames, size }
BatchSheetReturned ==
    /\ batch.pc = "render"
    /\ SheetComputed(batch.frame)
    /\ batch' = [batch EXCEPT !.pc = IF batch.mode = "main" THEN "write" ELSE "returned"]
    /\ UNCHANGED <<compose, render, hole, runs, sheet, manifest, perm, effects>>

\* canvas.toBuffer and fs.writeFileSync: the file is written, or the write
\* throws, main() rejects and console.error logs the error
BatchWrite ==
    /\ batch.pc = "write"
    /\ \E ok \in BOOLEAN :
          LET name == FileName(batch.cat, batch.types[batch.i]) IN
          IF ok
          THEN batch' = [batch EXCEPT !.pc = "loop", !.i = @ + 1,
                                      !.files = @ \cup {name},
                                      !.written = @ \cup {batch.i},
                                      !.log = @ \cup {<<"saved", name>>}]
          ELSE batch' = [batch EXCEPT !.pc = "rejected", !.failed = batch.i,
                                      !.error = "WriteError",
                                      !.log = @ \cup {<<"error", "WriteError">>}]
    /\ UNCHANGED <<compose, render, hole, runs, sheet, manifest, perm, effects>>

\* the loop is over: "GENERATION COMPLETE"
BatchComplete ==
    /\ batch.pc = "loop"
    /\ batch.i > Len(batch.types)
    /\ batch' = [batch EXCEPT !.pc = "complete", !.log = @ \cup {<<"complete">>}]
    /\ UNCHANGED <<compose, render, hole, runs, sheet, manifest, perm, effects>>

NextBatch ==
    \/ BatchGenerate
    \/ BatchRenderFrame
    \/ BatchSheetReturned
    \/ BatchWrite
    \/ BatchComplete

SpecBatch == InitBatch /\ [][NextBatch]_vars

\* a type name the category has no entry for
UnknownType(cat, type) == type \notin PaletteKeys(cat)

C12_MissingPaletteFallback ==
    (batch.seeds # <<>> /\ batch.i <= Len(batch.types)
       /\ UnknownType(batch.cat, batch.types[batch.i])) =>
        /\ batch.error # "TypeError"
        /\ batch.palette \in PaletteKeys(batch.cat)

\* C13: when generating or writing one sprite of a batch fails, the failure
\* is logged and every other sprite of the batch is still written.
C13_FailureNonFatal ==
    (batch.mode = "main" /\ batch.pc \in {"complete", "rejected"}) =>
        /\ batch.failed # 0 => <<"error", batch.error>> \in batch.log
        /\ \A j \in 1..Len(batch.types) : j # batch.failed => j \in batch.written

\* C15: a file is written only in a step that starts with every frame of
\* the sprite's sheet rendered; while a sheet is being computed nothing is
\* written.
C15_WriteAfterRender ==
    [][(batch'.files # batch.files \/ batch'.written # batch.written)
          => (batch.frame = MaxBatchFrames /\ batch.pc = "write"
              /\ batch'.written = batch.written \cup {batch.i})]_vars

\* the second sprite of a batch has been written after its frames
C15_Witness ==
    /\ batch.mode = "main"
    /\ 2 \in batch.written
    /\ batch.frame = MaxBatchFrames

\* the Noise3D seed a job gets when it is the only job of its process
AloneSeed(cat, i, stream) == NoiseSeedArg(cat, IndexArg(cat, i), stream[1])

\* C16: every job of a run gets the result it would get running alone: its
\* own Noise3D, seeded without regard to the jobs that ran before it.
C16_JobsIndependent ==
    \A j \in 1..Len(batch.seeds) :
        batch.seeds[j] = AloneSeed(batch.cat, j, batch.stream)

---------------------------------------------------------------------------
(* CelestialSpriteGenerator, requests in flight: generatePlanetSprite and  *)
(* generateMoonSprite are async; a call runs to its await of the loader,   *)
(* other calls may run before the loader resolves.  Result objects are     *)
(* told apart by a number, 0 standing for null.                            *)

\* calls made on one generator
MaxRequests == 3
\* clearCache calls made on one generator
MaxClears == 1

\* seeds are given in halves
SpriteConfigs == [category : {"planets", "moons"}, seed2 : {-3, 0, 7}]

\* `planet_${normalizedType}_${Math.floor(seed)}`, `moon_${Math.floor(seed)}`
SpriteKey(config) == <<config.category, FloorDiv(config.seed2, 2)>>

SpriteKeys == {SpriteKey(c) : c \in SpriteConfigs}

\* availableSprites > 0 ? Math.floor(seed) % availableSprites : 0
VariantIndex(seed2, availableSprites) ==
    IF availableSprites > 0
    THEN JsRem(FloorDiv(seed2, 2), availableSprites)
    ELSE 0

\* the generator after construction; the manifest lists 0, 1 or 3 variants
\* (0 also stands for a manifest that is not loaded)
InitLoad ==
    /\ \E available \in {0, 1, 3} :
          sheet = [pc |-> "requests", available |-> available,
                   cache |-> [k \in SpriteKeys |-> 0],
                   requests |-> <<>>, objects |-> 0, clock |-> 0, clears |-> 0]
    /\ compose = Idle
    /\ render = Idle
    /\ hole = Idle
    /\ runs = Idle
    /\ batch = Idle
    /\ manifest = Idle
    /\ perm = Idle
    /\ effects = Idle

\* the requests of key k whose load is in flight
Loading(k) ==
    {r \in DOMAIN sheet.requests :
        sheet.requests[r].key = k /\ sheet.requests[r].phase = "loading"}

\* generatePlanetSprite / generateMoonSprite up to the await: a cache hit
\* returns the cached object, a miss counts the variants, picks the index
\* and invokes the loader
SpriteCall ==
    /\ sheet.pc = "requests"
    /\ Len(sheet.requests) < MaxRequests
    /\ \E config \in SpriteConfigs :
          LET k == SpriteKey(config)
              hit == sheet.cache[k] # 0
              request == [key |-> k, seed2 |-> config.seed2,
                          started |-> sheet.clock + 1, epoch |-> sheet.clears,
                          overlaps |-> Loading(k),
                          invoked |-> ~hit,
                          index |-> IF hit THEN 0
                                    ELSE VariantIndex(config.seed2, sheet.available),
                          phase |-> IF hit THEN "returned" ELSE "loading",
                          returned |-> IF hit THEN sheet.clock + 1 ELSE 0,
                          returnEpoch |-> sheet.clears,
                          object |-> sheet.cache[k]]
          IN sheet' = [sheet EXCEPT !.requests = Append(@, request),
                                    !.clock = @ + 1]
    /\ UNCHANGED <<compose, render, hole, runs, batch, manifest, perm, effects>>

\* the loader resolves with sprite data: a new result object is built,
\* stored under the key and returned
SpriteLoaded ==
    /\ sheet.pc = "requests"
    /\ \E r \in DOMAIN sheet.requests :
          /\ sheet.requests[r].phase = "loading"
          /\ sheet' = [sheet EXCEPT
                         !.objects = @ + 1,
                         !.clock = @ + 1,
                         !.cache[sheet.requests[r].key] = sheet.objects + 1,
                         !.requests[r].phase = "returned",
                         !.requests[r].returned = sheet.clock + 1,
                         !.requests[r].returnEpoch = sheet.clears,
                         !.requests[r].object = sheet.objects + 1]
    /\ UNCHANGED <<compose, render, hole, runs, batch, manifest, perm, effects>>

\* the loader resolves with nothing, or rejects: null is returned
SpriteFailed ==
    /\ sheet.pc = "requests"
    /\ \E r \in DOMAIN sheet.requests :
          /\ sheet.requests[r].phase = "loading"
          /\ sheet' = [sheet EXCEPT
                         !.clock = @ + 1,
                         !.requests[r].phase = "returned",
                         !.requests[r].returned = sheet.clock + 1,
                         !.requests[r].returnEpoch = sheet.clears]
    /\ UNCHANGED <<compose, render, hole, runs, batch, manifest, perm, effects>>

\* clearCache(): this.spriteCache.clear()
CacheCleared ==
    /\ sheet.pc = "requests"
    /\ sheet.clears < MaxClears
    /\ sheet' = [sheet EXCEPT !.cache = [k \in SpriteKeys |-> 0],
                              !.clears = @ + 1,
                              !.clock = @ + 1]
    /\ UNCHANGED <<compose, render, hole, runs, batch, manifest, perm, effects>>

NextLoad ==
    \/ SpriteCall
    \/ SpriteLoaded
    \/ SpriteFailed
    \/ CacheCleared

SpecLoad == InitLoad /\ [][NextLoad]_vars

\* C25: a request that starts while a load of the same key is in flight
\* does not invoke the loader again, and resolves to the same object as
\* that load.
C25_OverlapSharesLoad ==
    \A s \in DOMAIN sheet.requests :
        \A r \in sheet.requests[s].overlaps :
            /\ ~sheet.requests[s].invoked
            /\ (/\ sheet.requests[r].phase = "returned"
                /\ sheet.requests[s].phase = "returned"
                /\ sheet.requests[r].object # 0
                /\ sheet.requests[s].object # 0)
                  => sheet.requests[s].object = sheet.requests[r].object

\* request s was made after request r had succeeded for the same key, with
\* no clearCache in between
LaterRequest(r, s) ==
    /\ sheet.requests[r].phase = "returned"
    /\ sheet.requests[r].invoked
    /\ sheet.requests[r].object # 0
    /\ sheet.requests[s].key = sheet.requests[r].key
    /\ sheet.requests[s].started > sheet.requests[r].returned
    /\ sheet.requests[s].epoch = sheet.requests[r].returnEpoch

\* C26: after a request has succeeded for a key, every later request with
\* that key returns the same object without invoking the loader, until
\* clearCache is called.
C26_CachedObjectReused ==
    \A r, s \in DOMAIN sheet.requests :
        LaterRequest(r, s) =>
            /\ ~sheet.requests[s].invoked
            /\ sheet.requests[s].object = sheet.requests[r].object

\* C27: with at least one variant available, the index passed to the loader
\* is in 0..availableSprites-1, for negative seeds too.
C27_VariantIndexInRange ==
    \A r \in DOMAIN sheet.requests :
        (sheet.requests[r].invoked /\ sheet.available > 0)
            => sheet.requests[r].index \in 0..(sheet.available - 1)

---------------------------------------------------------------------------
(* Manifest tools: generateManifest (reads the dimensions of each sheet    *)
(* file) and combineManifests (reads stars/manifest.json, scans the planet *)
(* directory).  Every file or directory is present and readable, present   *)
(* and unreadable, or absent.                                              *)

FileStates == {"ok", "unreadable", "absent"}

\* the star sheets generateManifest looks for, with their pixel sizes
ManifestStars == <<"O", "B", "A">>

StarSheetDims(stellarClass) ==
    LET size == CASE stellarClass = "O" -> 1400
                  [] stellarClass = "B" -> 1300
                  [] stellarClass = "A" -> 1100
    IN [width |-> size * starFrames, height |-> size]

\* Math.round(dims.width / dims.height)
RoundDiv(a, b) == (2 * a + b) \div (2 * b)

\* the record generateManifest stores for a star sheet
StarEntry(stellarClass, dims) ==
    [key |-> stellarClass, file |-> <<"stars", stellarClass, "000">>,
     frames |-> RoundDiv(dims.width, dims.height),
     width |-> dims.width, height |-> dims.height]

\* the record combineManifests stores for a planet file it finds
PlanetEntry(type) ==
    [key |-> type, file |-> <<"planets", type, "000">>, frames |-> 3,
     width |-> 0, height |-> 0]

InitManifest ==
    /\ \/ \E disk \in [1..Len(ManifestStars) -> FileStates] :
             manifest = [tool |-> "generate", pc |-> "stars", k |-> 1, disk |-> disk,
                         entries |-> {}, log |-> {}, written |-> FALSE]
       \/ \E disk \in [{"starsManifest", "planetsDir"} -> FileStates] :
             manifest = [tool |-> "combine", pc |-> "stars", k |-> 1, disk |-> disk,
                         entries |-> {}, log |-> {}, written |-> FALSE]
    /\ compose = Idle
    /\ render = Idle
    /\ hole = Idle
    /\ runs = Idle
    /\ sheet = Idle
    /\ batch = Idle
    /\ perm = Idle
    /\ effects = Idle

\* generateManifest, one star: existsSync, getPNGDimensions (which catches
\* the loadImage error, logs it and returns null), entry if dims
ReadStarDimensions ==
    /\ manifest.tool = "generate"
    /\ manifest.pc = "stars"
    /\ manifest.k <= Len(ManifestStars)
    /\ LET c == ManifestStars[manifest.k] IN
       manifest' =
          CASE manifest.disk[manifest.k] = "absent" ->
                  [manifest EXCEPT !.k = @ + 1]
            [] manifest.disk[manifest.k] = "unreadable" ->
                  [manifest EXCEPT !.k = @ + 1, !.log = @ \cup {<<"error", c>>}]
            [] manifest.disk[manifest.k] = "ok" ->
                  [manifest EXCEPT !.k = @ + 1,
                                   !.entries = @ \cup {StarEntry(c, StarSheetDims(c))}]
    /\ UNCHANGED <<compose, render, hole, runs, sheet, batch, perm, effects>>

\* generateManifest: fs.writeFileSync of manifest.json after the loops
WriteManifest ==
    /\ manifest.tool = "generate"
    /\ manifest.pc = "stars"
    /\ manifest.k > Len(ManifestStars)
    /\ manifest' = [manifest EXCEPT !.pc = "done", !.written = TRUE]
    /\ UNCHANGED <<compose, render, hole, runs, sheet, batch, perm, effects>>

\* combineManifests: JSON.parse(fs.readFileSync(starsManifestPath)) with no
\* try around it; what it throws rejects combineManifests() and is logged
\* by .catch(console.error)
CombineStars ==
    /\ manifest.tool = "combine"
    /\ manifest.pc = "stars"
    /\ manifest' =
          CASE manifest.disk["starsManifest"] = "absent" ->
                  [manifest EXCEPT !.pc = "planets"]
            [] manifest.disk["starsManifest"] = "unreadable" ->
                  [manifest EXCEPT !.pc = "rejected",
                                   !.log = @ \cup {<<"error", "starsManifest">>}]
            [] manifest.disk["starsManifest"] = "ok" ->
                  [manifest EXCEPT !.pc = "planets",
                                   !.entries = @ \cup {StarEntry("O", StarSheetDims("O"))}]
    /\ UNCHANGED <<compose, render, hole, runs, sheet, batch, perm, effects>>

\* combineManifests: fs.readdirSync(planetsDir) and one entry per file
CombinePlanets ==
    /\ manifest.tool = "combine"
    /\ manifest.pc = "planets"
    /\ manifest' =
          CASE manifest.disk["planetsDir"] = "absent" ->
                  [manifest EXCEPT !.pc = "write"]
            [] manifest.disk["planetsDir"] = "unreadable" ->
                  [manifest EXCEPT !.pc = "rejected",
                                   !.log = @ \cup {<<"error", "planetsDir">>}]
            [] manifest.disk["planetsDir"] = "ok" ->
                  [manifest EXCEPT !.pc = "write",
                                   !.entries = @ \cup {PlanetEntry("terran")}]
    /\ UNCHANGED <<compose, render, hole, runs, sheet, batch, perm, effects>>

\* combineManifests: fs.writeFileSync of manifest.json
CombineWrite ==
    /\ manifest.tool = "combine"
    /\ manifest.pc = "write"
    /\ manifest' = [manifest EXCEPT !.pc = "done", !.written = TRUE]
    /\ UNCHANGED <<compose, render, hole, runs, sheet, batch, perm, effects>>

NextManifest ==
    \/ ReadStarDimensions
    \/ WriteManifest
    \/ CombineStars
    \/ CombinePlanets
    \/ CombineWrite

SpecManifest == InitManifest /\ [][NextManifest]_vars

\* the tool has ended, normally or with an exception
ManifestEnded == manifest.pc \in {"done", "rejected"}

\* the keys whose source on disk is readable
ReadableKeys ==
    IF manifest.tool = "generate"
    THEN {ManifestStars[k] : k \in {j \in 1..Len(ManifestStars) : manifest.disk[j] = "ok"}}
    ELSE (IF manifest.disk["starsManifest"] = "ok" THEN {"O"} ELSE {})
         \cup (IF manifest.disk["planetsDir"] = "ok" THEN {"terran"} ELSE {})

\* C14: a failed read is caught and logged and costs only the one sprite:
\* the tool never ends with an exception, and the manifest is written with
\* an entry for every sprite whose file could be read.
C14_ReadFailureContained ==
    ManifestEnded =>
        /\ manifest.pc # "rejected"
        /\ manifest.written
        /\ \A key \in ReadableKeys : \E e \in manifest.entries : e.key = key

\* the planet sheet generateUltraDetailedPlanet draws:
\* createCanvas(size * frames, size) with CONFIG.frames and CONFIG.planetSize
PlanetSheetDims == [frames |-> 32, frameWidth |-> 800, frameHeight |-> 800]

\* the sheet file a manifest key stands for: its frame count and frame size
SheetOnDisk(key) ==
    IF key \in {ManifestStars[k] : k \in 1..Len(ManifestStars)}
    THEN [frames |-> starFrames,
          frameWidth |-> StarSheetDims(key).height,
          frameHeight |-> StarSheetDims(key).height]
    ELSE PlanetSheetDims

\* C22: every record of the written manifest has the frame count of its
\* sheet, the sheet's total width (frame count times frame width) and the
\* frame height.
C22_ManifestRecord ==
    manifest.pc = "done" =>
        \A e \in manifest.entries :
            /\ e.frames = SheetOnDisk(e.key).frames
            /\ e.width = SheetOnDisk(e.key).frames * SheetOnDisk(e.key).frameWidth
            /\ e.height = SheetOnDisk(e.key).frameHeight

---------------------------------------------------------------------------
(* Noise3D permutation table: initPermutation.  A 32-bit unsigned value is *)
(* kept as two 16-bit halves <<hi, lo>> so that no product leaves the      *)
(* integer range of the checker.                                           *)

\* seed >>> 0
ToUint32(seed) ==
    IF seed >= 0
    THEN <<seed \div 65536, seed % 65536>>
    ELSE <<65535 - ((0 - seed - 1) \div 65536), 65535 - ((0 - seed - 1) % 65536)>>

\* (rng * 1664525 + 1013904223) >>> 0, with 1664525 = 25 * 2^16 + 26125
\* and 1013904223 = 15470 * 2^16 + 62303
LcgNext(rng) ==
    LET low == rng[2] * 26125 + 62303
        high == (low \div 65536) + ((rng[1] * 26125) % 65536)
                   + ((rng[2] * 25) % 65536) + 15470
    IN <<high % 65536, low % 65536>>

\* the index i itself, whatever the generator state
LastIndex(rng, n) == n - 1

\* rng % n for n <= 256
RngMod(rng, n) == ((rng[1] % n) * (65536 % n) + rng[2]) % n

\* p[i] = p[j] without the exchange
CopyAt(p, i, j) == [p EXCEPT ![i] = p[j]]

\* [p[i], p[j]] = [p[j], p[i]]
SwapAt(p, i, j) == [p EXCEPT ![i] = p[j], ![j] = p[i]]

\* seeds given to new Noise3D(seed): the default, small and large draws,
\* a negative number
PermSeeds == {12345, 0, 1, 999999, 1089000, -1, -2147483647}

InitPerm ==
    /\ \E seed \in PermSeeds :
          perm = [pc |-> "shuffle", seed |-> seed, rng |-> ToUint32(seed), i |-> 255,
                  p |-> [k \in 0..255 |-> k], table |-> <<>>,
                  variant |-> "none", point |-> <<0, 0, 0>>, octaves |-> 0,
                  lookups |-> {}, noise |-> 0, fbm |-> [value |-> <<0, 0>>, maxValue |-> 0]]
    /\ compose = Idle
    /\ render = Idle
    /\ hole = Idle
    /\ runs = Idle
    /\ sheet = Idle
    /\ batch = Idle
    /\ manifest = Idle
    /\ effects = Idle

\* one iteration of `for (let i = 255; i > 0; i--)`
ShuffleStep ==
    /\ perm.pc = "shuffle"
    /\ perm.i > 0
    /\ LET rng == LcgNext(perm.rng)
           j == RngMod(rng, perm.i + 1)
       IN perm' = [perm EXCEPT !.rng = rng, !.i = @ - 1,
                               !.p = SwapAt(perm.p, perm.i, j)]
    /\ UNCHANGED <<compose, render, hole, runs, sheet, batch, manifest, effects>>

\* this.perm[i] = this.perm[i + 256] = p[i], stored in a Uint8Array(512)
BuildTable ==
    /\ perm.pc = "shuffle"
    /\ perm.i = 0
    /\ perm' = [perm EXCEPT !.pc = "built",
                            !.table = [k \in 0..511 |-> perm.p[k % 256] % 256]]
    /\ UNCHANGED <<compose, render, hole, runs, sheet, batch, manifest, effects>>

\* fade(t) = t * t * t * (t * (t * 6 - 15) + 10) for t = q / 4, in 512ths
Fade(q) == (q * q * q * (q * (6 * q - 60) + 160)) \div 2

\* lerp(t, a, b) = a + t * (b - a) with t in 512ths: the result is in
\* units 512 times finer than those of a and b
Lerp(t, a, b) == 512 * a + t * (b - a)

\* this.perm[k]; a read outside the Uint8Array(512) yields undefined (-1)
PermAt(table, k) == IF k \in DOMAIN table THEN table[k] ELSE -1

\* grad(hash, x, y, z); undefined & 15 is 0
grad(hash, x, y, z) ==
    LET h == IF hash < 0 THEN 0 ELSE hash % 16
        u == IF h < 8 THEN x ELSE y
        v == IF h < 4 THEN y ELSE (IF h = 12 \/ h = 14 THEN x ELSE z)
    IN (IF h % 2 = 0 THEN u ELSE 0 - u) + (IF (h \div 2) % 2 = 0 THEN v ELSE 0 - v)

\* the two noise implementations: Noise3D of generateBlackHoles.mjs hashes in
\* two stages, the simplified Noise3D of generateAsteroids.mjs adds Z to the
\* first-stage sum
NoiseVariants == {"twoStage", "simplified"}

\* the eight table indices noise() reads for the corners of cell (X, Y, Z),
\* in the order 000, 100, 010, 110, 001, 101, 011, 111
CornerIndices(table, variant, X, Y, Z) ==
    LET A == table[X] + Y
        B == table[X + 1] + Y
    IN IF variant = "twoStage"
       THEN LET AA == table[A] + Z
                AB == table[A + 1] + Z
                BA == table[B] + Z
                BB == table[B + 1] + Z
            IN <<AA, BA, AB, BB, AA + 1, BA + 1, AB + 1, BB + 1>>
       ELSE <<A + Z, B + Z, A + 1 + Z, B + 1 + Z,
              A + Z + 1, B + Z + 1, A + 1 + Z + 1, B + 1 + Z + 1>>

\* every index noise() passes to this.perm for a point given in quarters
NoiseLookups(table, variant, x4, y4, z4) ==
    LET X == (x4 \div 4) % 256
        Y == (y4 \div 4) % 256
        Z == (z4 \div 4) % 256
        c == CornerIndices(table, variant, X, Y, Z)
    IN {X, X + 1} \cup {c[k] : k \in 1..8}
         \cup (IF variant = "twoStage"
               THEN {table[X] + Y, table[X] + Y + 1, table[X + 1] + Y, table[X + 1] + Y + 1}
               ELSE {})

\* one unit of noise(): coordinates are in quarters and three lerps refine
\* the unit by 512 each
NoiseUnit == 4 * 512 * 512 * 512

\* noise(x, y, z) for a point given in quarters, in NoiseUnits
noise(table, variant, x4, y4, z4) ==
    LET X == (x4 \div 4) % 256
        Y == (y4 \div 4) % 256
        Z == (z4 \div 4) % 256
        x == x4 % 4
        y == y4 % 4
        z == z4 % 4
        u == Fade(x)
        v == Fade(y)
        w == Fade(z)
        c == CornerIndices(table, variant, X, Y, Z)
        g(k, dx, dy, dz) == grad(PermAt(table, c[k]), x - dx, y - dy, z - dz)
    IN Lerp(w,
            Lerp(v, Lerp(u, g(1, 0, 0, 0), g(2, 4, 0, 0)),
                    Lerp(u, g(3, 0, 4, 0), g(4, 4, 4, 0))),
            Lerp(v, Lerp(u, g(5, 0, 0, 4), g(6, 4, 0, 4)),
                    Lerp(u, g(7, 0, 4, 4), g(8, 4, 4, 4))))

RECURSIVE Pow2(_)
Pow2(n) == IF n = 0 THEN 1 ELSE 2 * Pow2(n - 1)

\* a sum kept as <<hi, lo>> for hi * 65536 + lo, with 0 <= lo < 65536
LimbAdd(a, b) ==
    <<a[1] + b[1] + ((a[2] + b[2]) \div 65536), (a[2] + b[2]) % 65536>>

LimbScale(k, n) ==
    LET lo == k * (n % 65536)
    IN <<k * (n \div 65536) + (lo \div 65536), lo % 65536>>

RECURSIVE FbmFrom(_, _, _, _, _, _, _)
\* the loop of fbm(x, y, z, octaves) from octave i on: value scaled by
\* 2^(octaves - 1), so that the amplitudes 1, 1/2, 1/4, ... are integers
FbmFrom(table, variant, x4, y4, z4, octaves, i) ==
    IF i >= octaves
    THEN <<0, 0>>
    ELSE LimbAdd(LimbScale(Pow2(octaves - 1 - i),
                           noise(table, variant, x4 * Pow2(i), y4 * Pow2(i), z4 * Pow2(i))),
                 FbmFrom(table, variant, x4, y4, z4, octaves, i + 1))

\* fbm(): value and maxValue, both scaled by 2^(octaves - 1); value in limbs
\* of NoiseUnits
fbm(table, variant, x4, y4, z4, octaves) ==
    [value |-> FbmFrom(table, variant, x4, y4, z4, octaves, 0),
     maxValue |-> Pow2(octaves) - 1]

\* the octave counts the generators pass to fbm
FbmOctaves == {3, 4, 5, 6, 7, 8}

\* sample points in quarters: cell centres, points three quarters along x,
\* a negative coordinate, the last cell of the table, a lattice point
NoiseSamples ==
    {<<4 * 41 + 3, 4 * 181 + 2, 4 * 216 + 2>>,
     <<4 * 250 + 3, 4 * 68 + 2, 4 * 240 + 2>>,
     <<2, 2, 2>>,
     <<0 - 3, 4 * 255 + 2, 4 * 255 + 1>>,
     <<0, 4 * 7, 4 * 300>>}

\* one call of noise() and one of fbm() on the finished table
NoiseSample ==
    /\ perm.pc = "built"
    /\ \E variant \in NoiseVariants, q \in NoiseSamples, octaves \in FbmOctaves :
          perm' = [perm EXCEPT
                     !.pc = "sampled",
                     !.variant = variant,
                     !.point = q,
                     !.octaves = octaves,
                     !.lookups = NoiseLookups(perm.table, variant, q[1], q[2], q[3]),
                     !.noise = noise(perm.table, variant, q[1], q[2], q[3]),
                     !.fbm = fbm(perm.table, variant, q[1], q[2], q[3], octaves)]
    /\ UNCHANGED <<compose, render, hole, runs, sheet, batch, manifest, effects>>

NextPerm ==
    \/ ShuffleStep
    \/ BuildTable
    \/ NoiseSample

SpecPerm == InitPerm /\ [][NextPerm]_vars

\* C20: the permutation table built for a seed has 512 entries, entries
\* 0..255 hold each value of 0..255 exactly once, and entry i + 256 equals
\* entry i.
C20_PermutationTable ==
    perm.pc = "built" =>
        /\ DOMAIN perm.table = 0..511
        /\ \A v \in 0..255 : Cardinality({k \in 0..255 : perm.table[k] = v}) = 1
        /\ \A k \in 0..255 : perm.table[k + 256] = perm.table[k]

\* a table built for a negative seed, with entries moved off their index
C20_Witness ==
    /\ perm.pc = "built"
    /\ perm.seed < 0
    /\ \E k \in 0..255 : perm.table[k] # k

\* C21: the table built for seed 0 is a permutation of 0..255 and is not
\* the identity.
C21_SeedZeroShuffled ==
    (perm.pc = "built" /\ perm.seed = 0) =>
        /\ {perm.table[k] : k \in 0..255} = 0..255
        /\ \E k \in 0..255 : perm.table[k] # k

\* a table has been built for seed 0
C21_Witness ==
    /\ perm.pc = "built"
    /\ perm.seed = 0
    /\ perm.i = 0

\* value <= maxValue and value >= -maxValue for an fbm result
FbmInRange(f) ==
    LET bound == f.maxValue * (NoiseUnit \div 65536)
    IN /\ f.value[1] < bound \/ (f.value[1] = bound /\ f.value[2] = 0)
       /\ f.value[1] >= 0 - bound

\* C23: noise(x, y, z) and fbm(x, y, z, octaves) return a value in [-1, 1].
C23_NoiseRange ==
    perm.pc = "sampled" =>
        /\ perm.noise <= NoiseUnit
        /\ perm.noise >= 0 - NoiseUnit
        /\ FbmInRange(perm.fbm)

\* C24: every index noise() passes to the permutation table is in 0..511.
C24_LookupInTable ==
    perm.pc = "sampled" => perm.lookups \subseteq 0..511

---------------------------------------------------------------------------
(* EnhancedEffectsSystem: five lists of effects, each entry with a life    *)
(* that update(dt) runs down.  A list is kept as the sequence of the lives *)
(* of its entries, in tenths of a second.  The performance limits of the   *)
(* constructor (2000, 100, 50, 500) are scaled down.                       *)

maxParticles == 4
maxShieldEffects == 2
maxExplosions == 3
maxDebris == 2
\* create... calls made on one system
MaxCalls == 2
\* how far below zero the life of an entry that is never removed is followed
MaxOverdue == 2

\* the two copies of the class: engine/effects/EnhancedEffectsSystem.js and
\* part_000
EffectsCopies == {"engine", "part_000"}

\* dt of a frame, in tenths of a second
EffectSteps == {3, 20}

\* Math.random(): the lowest and the highest outcome
Draws == {0, 1}

Repeat(v, n) == [i \in 1..n |-> v]

Alive(life) == life > 0

\* life -= dt for every entry; entries with life <= 0 are spliced out
Aged(list, dt) == SelectSeq([i \in 1..Len(list) |-> list[i] - dt], Alive)

InitEffects ==
    /\ \E copy \in EffectsCopies :
          effects = [copy |-> copy, particles |-> <<>>, shieldEffects |-> <<>>,
                     explosions |-> <<>>, debrisParticles |-> <<>>,
                     weaponEffects |-> <<>>, timers |-> <<>>, calls |-> 0,
                     threw |-> FALSE, pc |-> "running"]
    /\ compose = Idle
    /\ render = Idle
    /\ hole = Idle
    /\ runs = Idle
    /\ sheet = Idle
    /\ batch = Idle
    /\ manifest = Idle
    /\ perm = Idle

\* update(dt) for a positive dt.  In part_000 the explosions loop tests
\* p.life, and p is not in scope there: with an explosion in the list the
\* first pass of that loop throws a ReferenceError after e.life -= dt, and
\* the debris and weapon loops are not reached.
update ==
    /\ effects.pc = "running"
    /\ \E dt \in EffectSteps :
          IF effects.copy = "part_000" /\ effects.explosions # <<>>
          THEN effects' =
                  [effects EXCEPT
                     !.particles = Aged(@, dt),
                     !.shieldEffects = Aged(@, dt),
                     !.explosions[Len(effects.explosions)] = Max2(@ - dt, 0 - MaxOverdue),
                     !.threw = TRUE]
          ELSE effects' =
                  [effects EXCEPT
                     !.particles = Aged(@, dt),
                     !.shieldEffects = Aged(@, dt),
                     !.explosions = Aged(@, dt),
                     !.debrisParticles = Aged(@, dt),
                     !.weaponEffects = Aged(@, dt)]
    /\ UNCHANGED <<compose, render, hole, runs, sheet, batch, manifest, perm>>

\* createEngineThrustEffect(x, y, angle, power): Math.floor(5 * power)
\* particles of life 0.3 + Math.random() * 0.2; power in fifths
createEngineThrustEffect ==
    /\ effects.pc = "running"
    /\ effects.calls < MaxCalls
    /\ \E power5 \in {1, 3}, draw \in Draws :
          effects' =
             IF Len(effects.particles) >= maxParticles
             THEN [effects EXCEPT !.calls = @ + 1]
             ELSE [effects EXCEPT !.calls = @ + 1,
                                  !.particles = @ \o Repeat(3 + draw, power5)]
    /\ UNCHANGED <<compose, render, hole, runs, sheet, batch, manifest, perm>>

\* createSideThrusterEffect(x, y, angle, direction, power):
\* Math.floor(3 * power) particles of life 0.2 + Math.random() * 0.15
createSideThrusterEffect ==
    /\ effects.pc = "running"
    /\ effects.calls < MaxCalls
    /\ \E power5 \in {2, 5}, draw \in Draws :
          effects' =
             IF Len(effects.particles) >= maxParticles
             THEN [effects EXCEPT !.calls = @ + 1]
             ELSE [effects EXCEPT !.calls = @ + 1,
                                  !.particles = @ \o Repeat(2 + draw, (3 * power5) \div 5)]
    /\ UNCHANGED <<compose, render, hole, runs, sheet, batch, manifest, perm>>

\* createShieldEffect(x, y, radius, type): life 0.5 for a hit, 2.0 otherwise
createShieldEffect ==
    /\ effects.pc = "running"
    /\ effects.calls < MaxCalls
    /\ \E type \in {"active", "hit"} :
          effects' =
             IF Len(effects.shieldEffects) >= maxShieldEffects
             THEN [effects EXCEPT !.calls = @ + 1]
             ELSE [effects EXCEPT !.calls = @ + 1,
                                  !.shieldEffects =
                                     Append(@, IF type = "hit" THEN 5 ELSE 20)]
    /\ UNCHANGED <<compose, render, hole, runs, sheet, batch, manifest, perm>>

\* createShieldHitEffect: createShieldEffect(..., 'hit') and five ripples
\* pushed by timers of 0, 50, 100, 150 and 200 ms
createShieldHitEffect ==
    /\ effects.pc = "running"
    /\ effects.calls < MaxCalls
    /\ effects' =
          [effects EXCEPT
             !.calls = @ + 1,
             !.shieldEffects = IF Len(@) >= maxShieldEffects THEN @ ELSE Append(@, 5),
             !.timers = Append(@, Repeat([list |-> "shieldEffects", life |-> 3], 5))]
    /\ UNCHANGED <<compose, render, hole, runs, sheet, batch, manifest, perm>>

\* createExplosion(x, y, size, type): the flash now, the wave after 100 ms,
\* the fireball after 200 ms, and Math.floor(50 * size) particles of life
\* 0.5 + Math.random() * 0.8; size in fiftieths
createExplosion ==
    /\ effects.pc = "running"
    /\ effects.calls < MaxCalls
    /\ \E size50 \in {1, 3}, draw \in Draws :
          effects' =
             IF Len(effects.explosions) >= maxExplosions
             THEN [effects EXCEPT !.calls = @ + 1]
             ELSE [effects EXCEPT
                     !.calls = @ + 1,
                     !.explosions = Append(@, 5),
                     !.timers = Append(@, <<[list |-> "explosions", life |-> 8],
                                            [list |-> "explosions", life |-> 12]>>),
                     !.particles = @ \o Repeat(5 + 7 * draw, size50)]
    /\ UNCHANGED <<compose, render, hole, runs, sheet, batch, manifest, perm>>

\* the push of debris piece i of count, unless the list is full
RECURSIVE DebrisPushed(_, _, _)
DebrisPushed(list, count, life) ==
    IF count = 0 \/ Len(list) >= maxDebris
    THEN list
    ELSE DebrisPushed(Append(list, life), count - 1, life)

\* createDebris(x, y, objectType, size): Math.floor(20 * size) pieces of
\* life 3 + Math.random() * 2
createDebris ==
    /\ effects.pc = "running"
    /\ effects.calls < MaxCalls
    /\ \E size20 \in {1, 3}, draw \in Draws :
          effects' = [effects EXCEPT
                        !.calls = @ + 1,
                        !.debrisParticles = DebrisPushed(@, size20, 30 + 19 * draw)]
    /\ UNCHANGED <<compose, render, hole, runs, sheet, batch, manifest, perm>>

\* the push of spark i of count, unless the list is full
RECURSIVE SparksPushed(_, _, _)
SparksPushed(list, count, life) ==
    IF count = 0 \/ Len(list) >= maxParticles
    THEN list
    ELSE SparksPushed(Append(list, life), count - 1, life)

\* createHullDamageSparks(x, y, count): sparks of life 0.3 + Math.random() * 0.3
createHullDamageSparks ==
    /\ effects.pc = "running"
    /\ effects.calls < MaxCalls
    /\ \E count \in {1, 10}, draw \in Draws :
          effects' = [effects EXCEPT
                        !.calls = @ + 1,
                        !.particles = SparksPushed(@, count, 3 + 2 * draw)]
    /\ UNCHANGED <<compose, render, hole, runs, sheet, batch, manifest, perm>>

\* createLaserEffect: a weapon effect of life 0.1 and a glow particle of
\* life 0.2
createLaserEffect ==
    /\ effects.pc = "running"
    /\ effects.calls < MaxCalls
    /\ effects' = [effects EXCEPT !.calls = @ + 1,
                                  !.weaponEffects = Append(@, 1),
                                  !.particles = Append(@, 2)]
    /\ UNCHANGED <<compose, render, hole, runs, sheet, batch, manifest, perm>>

\* createProjectileEffect: a weapon effect of life 3.0
createProjectileEffect ==
    /\ effects.pc = "running"
    /\ effects.calls < MaxCalls
    /\ effects' = [effects EXCEPT !.calls = @ + 1,
                                  !.weaponEffects = Append(@, 30)]
    /\ UNCHANGED <<compose, render, hole, runs, sheet, batch, manifest, perm>>

\* the next setTimeout callback of one create call runs: it pushes its
\* entry, whatever the length of the list
TimerFires ==
    /\ effects.pc = "running"
    /\ \E k \in DOMAIN effects.timers :
          LET t == Head(effects.timers[k])
              rest == Tail(effects.timers[k])
              timers == IF rest = <<>>
                        THEN SubSeq(effects.timers, 1, k - 1)
                                \o SubSeq(effects.timers, k + 1, Len(effects.timers))
                        ELSE [effects.timers EXCEPT ![k] = rest]
          IN effects' =
                IF t.list = "explosions"
                THEN [effects EXCEPT !.timers = timers,
                                     !.explosions = Append(@, t.life)]
                ELSE [effects EXCEPT !.timers = timers,
                                     !.shieldEffects = Append(@, t.life)]
    /\ UNCHANGED <<compose, render, hole, runs, sheet, batch, manifest, perm>>

NextEffects ==
    \/ update
    \/ createEngineThrustEffect
    \/ createSideThrusterEffect
    \/ createShieldEffect
    \/ createShieldHitEffect
    \/ createExplosion
    \/ createDebris
    \/ createHullDamageSparks
    \/ createLaserEffect
    \/ createProjectileEffect
    \/ TimerFires

SpecEffects == InitEffects /\ [][NextEffects]_vars

\* the game loop keeps calling update and pending timers run
SpecEffectsLive ==
    InitEffects /\ [][NextEffects]_vars /\ WF_vars(update) /\ WF_vars(TimerFires)

\* C28: the explosions list never holds more than maxExplosions entries,
\* the wave and the fireball that createExplosion schedules included.
C28_ExplosionsCapped == Len(effects.explosions) <= maxExplosions

\* C29: the particles list never holds more than maxParticles entries.
C29_ParticlesCapped == Len(effects.particles) <= maxParticles

\* every list is empty
AllEmpty ==
    /\ effects.particles = <<>>
    /\ effects.shieldEffects = <<>>
    /\ effects.explosions = <<>>
    /\ effects.debrisParticles = <<>>
    /\ effects.weaponEffects = <<>>

\* no create call is left to be made
NoNewEffects == effects.calls = MaxCalls

\* C30: once no new effects are created, repeated update calls with a
\* positive dt remove every entry, so that all five lists become empty,
\* and no update call throws.
C30_EffectsDrain == [](~effects.threw) /\ (NoNewEffects ~> AllEmpty)

===========================================================================
